---- MODULE Spec2Model ----
(***************************************************************************)
(* A model of the WCAG MCP server (wcag-server): the read handler, the     *)
(* version fan-out of findCriterion / findUnderstanding, the prefix        *)
(* cascade of findTechnique and the HTML to Markdown conversion.           *)
(*                                                                         *)
(* A string is a sequence of symbols.  A symbol is one character ("A",     *)
(* "/", ".") or one fixed word of the source text ("guidelines", "html",   *)
(* "wcag:"); "/" and "." are always symbols of their own, so splitting a   *)
(* path and testing a prefix work as they do on the characters.            *)
(***************************************************************************)
EXTENDS Integers, Sequences, FiniteSets, TLC

VARIABLES
    impl,       \* which source of the server runs: "js" or "ts"
    files,      \* the file system: path -> [kind, content]
    request,    \* the URI of the last request served (NoRequest at start)
    called,     \* the resolver the last request dispatched to
    ops,        \* the file-system calls of the last request, in order
    lookup,     \* findTechnique's prefix and technology of the last request
    response,   \* the response (result or McpError) of the last request
    turndownService,  \* the converter instance the constructor made
    pending     \* per client, the read request in flight or last answered

vars == <<impl, files, request, called, ops, lookup, response, turndownService,
          pending>>

---------------------------------------------------------------------------
(* String primitives of JavaScript used by the source. *)

\* String.prototype.startsWith
StartsWith(s, p) == Len(s) >= Len(p) /\ SubSeq(s, 1, Len(p)) = p

Contains(s, c) == \E i \in 1..Len(s) : s[i] = c

\* String.prototype.split(sep) for a one-symbol separator
RECURSIVE Split(_, _)
Split(s, sep) ==
    IF ~Contains(s, sep) THEN <<s>>
    ELSE LET i == CHOOSE k \in 1..Len(s) :
                      s[k] = sep /\ \A j \in 1..(k - 1) : s[j] # sep
         IN  <<SubSeq(s, 1, i - 1)>> \o Split(SubSeq(s, i + 1, Len(s)), sep)

Last(s) == s[Len(s)]

\* the strings of a list appended one to the next (markdown += ...)
RECURSIVE Flatten(_)
Flatten(seqs) == IF seqs = <<>> THEN <<>> ELSE Head(seqs) \o Flatten(Tail(seqs))
Front(s) == SubSeq(s, 1, Len(s) - 1)

DotDot == <<".", ".">>

\* path.normalize on the segments of a relative path: "" and "." are dropped,
\* ".." removes the segment before it, or stays when there is none to remove
RECURSIVE NormalizeSegs(_, _)
NormalizeSegs(done, rest) ==
    IF rest = <<>> THEN done
    ELSE LET s == Head(rest)
         IN  IF s = <<>> \/ s = <<".">>
             THEN NormalizeSegs(done, Tail(rest))
             ELSE IF s = DotDot /\ done # <<>> /\ Last(done) # DotDot
             THEN NormalizeSegs(Front(done), Tail(rest))
             ELSE NormalizeSegs(Append(done, s), Tail(rest))

\* path.join(a, b): the normalized segments of a + "/" + b
pathJoin(a, b) == NormalizeSegs(<<>>, Split(a \o <<"/">> \o b, "/"))

---------------------------------------------------------------------------
(* Configuration and the tables of the source. *)

\* this.wcagBasePath = process.env.WCAG_PATH || '../wcag'
wcagBasePath == <<".", ".", "/", "wcag">>

\* const versions = ['20', '21', '22']
versions == <<"20", "21", "22">>

\* TECHNIQUE_PREFIX_MAP: the keys, as strings
PrefixKeys ==
    { <<"A", "R", "I", "A">>, <<"C">>, <<"F">>, <<"F", "L", "A", "S", "H">>,
      <<"G">>, <<"H">>, <<"P", "D", "F">>, <<"S", "C", "R">>, <<"S", "L">>,
      <<"S", "M">>, <<"S", "V", "R">>, <<"T">> }

\* the table with a default technology for a prefix it does not hold
TECHNIQUE_PREFIX_MAP_DefaultGeneral(prefix) ==
    CASE prefix = <<"A", "R", "I", "A">>      -> <<"aria">>
      [] prefix = <<"C">>                     -> <<"css">>
      [] prefix = <<"F">>                     -> <<"failures">>
      [] prefix = <<"F", "L", "A", "S", "H">> -> <<"flash">>
      [] prefix = <<"G">>                     -> <<"general">>
      [] prefix = <<"H">>                     -> <<"html">>
      [] prefix = <<"P", "D", "F">>           -> <<"pdf">>
      [] prefix = <<"S", "C", "R">>           -> <<"client-side-script">>
      [] prefix = <<"S", "L">>                -> <<"silverlight">>
      [] prefix = <<"S", "M">>                -> <<"smil">>
      [] prefix = <<"S", "V", "R">>           -> <<"server-side-script">>
      [] prefix = <<"T">>                     -> <<"text">>
      [] OTHER                                -> <<"general">>

\* TECHNIQUE_PREFIX_MAP[prefix]; undefined is modelled as the empty string
TECHNIQUE_PREFIX_MAP(prefix) ==
    CASE prefix = <<"A", "R", "I", "A">>      -> <<"aria">>
      [] prefix = <<"C">>                     -> <<"css">>
      [] prefix = <<"F">>                     -> <<"failures">>
      [] prefix = <<"F", "L", "A", "S", "H">> -> <<"flash">>
      [] prefix = <<"G">>                     -> <<"general">>
      [] prefix = <<"H">>                     -> <<"html">>
      [] prefix = <<"P", "D", "F">>           -> <<"pdf">>
      [] prefix = <<"S", "C", "R">>           -> <<"client-side-script">>
      [] prefix = <<"S", "L">>                -> <<"silverlight">>
      [] prefix = <<"S", "M">>                -> <<"smil">>
      [] prefix = <<"S", "V", "R">>           -> <<"server-side-script">>
      [] prefix = <<"T">>                     -> <<"text">>
      [] OTHER                                -> <<>>

\* the characters /^[A-Z]/ accepts
UpperCase ==
    { "A", "B", "C", "D", "E", "F", "G", "H", "I", "J", "K", "L", "M",
      "N", "O", "P", "Q", "R", "S", "T", "U", "V", "W", "X", "Y", "Z" }

\* the characters the "." of a regular expression does not match
LineTerminators == { "\n", "\r" }

DotHtml == <<".", "html">>

---------------------------------------------------------------------------
(* The file system (fs.existsSync, fs.readFileSync). *)

\* fs.existsSync(filePath): true for a file and for a directory, never throws
existsSync(filePath) == filePath \in DOMAIN files

\* the path as the string fs was given: its segments joined by "/"
RECURSIVE pathString(_)
pathString(filePath) ==
    IF filePath = <<>> THEN <<>>
    ELSE IF Len(filePath) = 1 THEN filePath[1]
    ELSE filePath[1] \o <<"/">> \o pathString(Tail(filePath))

\* fs.readFileSync(filePath, 'utf-8'): the content of a regular file; throws
\* ENOENT, whose message names the path, for a missing path and EISDIR,
\* whose message does not, for a directory
readFileSync(filePath) ==
    IF filePath \notin DOMAIN files
    THEN [ok |-> FALSE, content |-> <<>>,
          error |-> <<"ENOENT: no such file or directory, open '">>
                        \o pathString(filePath) \o <<"'">>]
    ELSE IF files[filePath].kind # "file"
    THEN [ok |-> FALSE, content |-> <<>>,
          error |-> <<"EISDIR: illegal operation on a directory, read">>]
    ELSE [ok |-> TRUE, content |-> files[filePath].content, error |-> <<>>]

ExistsOp(filePath) ==
    [op |-> "existsSync", path |-> filePath, ok |-> existsSync(filePath)]

ReadOp(filePath) ==
    [op |-> "readFileSync", path |-> filePath, ok |-> readFileSync(filePath).ok]

\* fs.writeFileSync(filePath, data, 'utf-8')
WriteOp(filePath, data) ==
    [op |-> "writeFileSync", path |-> filePath, ok |-> TRUE, data |-> data]

---------------------------------------------------------------------------
(* Errors.  McpError(code, message); a plain Error has code "Error". *)

McpError(code, message) ==
    [threw |-> TRUE, code |-> code, message |-> message, content |-> <<>>]

PlainError(message) ==
    [threw |-> TRUE, code |-> "Error", message |-> message, content |-> <<>>]

Returned(content) ==
    [threw |-> FALSE, code |-> "", message |-> <<>>, content |-> content]

---------------------------------------------------------------------------
(* The Identifier Resolver. *)

\* `guidelines/sc/${version}/${criterionId}.html` joined to the base path
criterionPath(version, criterionId) ==
    pathJoin(wcagBasePath,
             <<"guidelines", "/", "sc", "/", version, "/">> \o criterionId \o DotHtml)

\* `understanding/${version}/${criterionId}.html` joined to the base path
understandingPath(version, criterionId) ==
    pathJoin(wcagBasePath,
             <<"understanding", "/", version, "/">> \o criterionId \o DotHtml)

\* `techniques/${technology}/${techniqueId}.html` joined to the base path
techniquePath(technology, techniqueId) ==
    pathJoin(wcagBasePath,
             <<"techniques", "/">> \o technology \o <<"/">> \o techniqueId \o DotHtml)

\* What a resolver hands back: what it returned or threw, the file-system
\* calls it made, and the version / prefix / technology it settled on.
Outcome(result, calls, version, prefix, technology) ==
    [result |-> result, ops |-> calls, version |-> version,
     prefix |-> prefix, technology |-> technology]

\* The loop of findCriterion from versions[i] on, after the calls `acc`.
\* A readFileSync that throws is caught inside the loop, which goes on to the
\* next version.
RECURSIVE findCriterionFrom(_, _, _)
findCriterionFrom(criterionId, i, acc) ==
    IF i > Len(versions)
    THEN Outcome(McpError("InvalidRequest",
                          <<"Criterion not found: ">> \o criterionId),
                 acc, "", <<>>, <<>>)
    ELSE LET filePath == criterionPath(versions[i], criterionId)
         IN  IF existsSync(filePath)
             THEN IF readFileSync(filePath).ok
                  THEN Outcome(Returned(readFileSync(filePath).content),
                               acc \o <<ExistsOp(filePath), ReadOp(filePath)>>,
                               versions[i], <<>>, <<>>)
                  ELSE findCriterionFrom(criterionId, i + 1,
                               acc \o <<ExistsOp(filePath), ReadOp(filePath)>>)
             ELSE findCriterionFrom(criterionId, i + 1,
                               Append(acc, ExistsOp(filePath)))

\* findCriterion with the versions tried newest first
findCriterion_NewestFirst(criterionId) ==
    LET has == {i \in 1..Len(versions) :
                    readFileSync(criterionPath(versions[i], criterionId)).ok}
        top == CHOOSE i \in has : \A j \in has : j <= i
    IN  IF has = {} THEN findCriterionFrom(criterionId, 1, <<>>)
        ELSE Outcome(Returned(readFileSync(criterionPath(versions[top], criterionId)).content),
                     <<ExistsOp(criterionPath(versions[top], criterionId)),
                       ReadOp(criterionPath(versions[top], criterionId))>>,
                     versions[top], <<>>, <<>>)

\* findCriterion returning an empty document where it should throw
findCriterion_EmptyOnMiss(criterionId) ==
    LET o == findCriterionFrom(criterionId, 1, <<>>)
    IN  IF o.result.threw THEN [o EXCEPT !.result = Returned(<<>>)] ELSE o

findCriterion(criterionId) == findCriterionFrom(criterionId, 1, <<>>)

\* The loop of findUnderstanding, as that of findCriterion.
RECURSIVE findUnderstandingFrom(_, _, _)
findUnderstandingFrom(criterionId, i, acc) ==
    IF i > Len(versions)
    THEN Outcome(McpError("InvalidRequest",
                          <<"Understanding document not found: ">> \o criterionId),
                 acc, "", <<>>, <<>>)
    ELSE LET filePath == understandingPath(versions[i], criterionId)
         IN  IF existsSync(filePath)
             THEN IF readFileSync(filePath).ok
                  THEN Outcome(Returned(readFileSync(filePath).content),
                               acc \o <<ExistsOp(filePath), ReadOp(filePath)>>,
                               versions[i], <<>>, <<>>)
                  ELSE findUnderstandingFrom(criterionId, i + 1,
                               acc \o <<ExistsOp(filePath), ReadOp(filePath)>>)
             ELSE findUnderstandingFrom(criterionId, i + 1,
                               Append(acc, ExistsOp(filePath)))

\* findUnderstanding giving up after the first version
findUnderstanding_FirstVersionOnly(criterionId) ==
    LET o == findUnderstandingFrom(criterionId, 1, <<>>)
    IN  IF o.version \in {"", versions[1]} THEN o
        ELSE Outcome(McpError("InvalidRequest",
                              <<"Understanding document not found: ">> \o criterionId),
                     <<ExistsOp(understandingPath(versions[1], criterionId))>>,
                     "", <<>>, <<>>)

\* findUnderstanding going through the versions a second time before it
\* gives up
findUnderstanding_RetryOnce(criterionId) ==
    LET o == findUnderstandingFrom(criterionId, 1, <<>>)
    IN  IF o.result.threw THEN findUnderstandingFrom(criterionId, 1, o.ops) ELSE o

findUnderstanding(criterionId) == findUnderstandingFrom(criterionId, 1, <<>>)

\* findTechnique's cascade with the single-letter test ahead of the others
techniquePrefix_FirstLetterFirst(techniqueId) ==
    IF techniqueId # <<>> /\ techniqueId[1] \in UpperCase
    THEN <<techniqueId[1]>>
    ELSE <<>>

\* the cascade without its test for SL
techniquePrefix_NoSilverlight(techniqueId) ==
    IF StartsWith(techniqueId, <<"A", "R", "I", "A">>) THEN <<"A", "R", "I", "A">>
    ELSE IF StartsWith(techniqueId, <<"F", "L", "A", "S", "H">>)
         THEN <<"F", "L", "A", "S", "H">>
    ELSE IF StartsWith(techniqueId, <<"P", "D", "F">>) THEN <<"P", "D", "F">>
    ELSE IF StartsWith(techniqueId, <<"S", "C", "R">>) THEN <<"S", "C", "R">>
    ELSE IF StartsWith(techniqueId, <<"S", "M">>) THEN <<"S", "M">>
    ELSE IF StartsWith(techniqueId, <<"S", "V", "R">>) THEN <<"S", "V", "R">>
    ELSE IF techniqueId # <<>> /\ techniqueId[1] \in UpperCase
         THEN <<techniqueId[1]>>
    ELSE <<>>

\* The if / else-if cascade of findTechnique: the prefix, or <<>> when the
\* identifier is rejected ("Invalid technique ID format")
techniquePrefix(techniqueId) ==
    IF StartsWith(techniqueId, <<"A", "R", "I", "A">>) THEN <<"A", "R", "I", "A">>
    ELSE IF StartsWith(techniqueId, <<"F", "L", "A", "S", "H">>)
         THEN <<"F", "L", "A", "S", "H">>
    ELSE IF StartsWith(techniqueId, <<"P", "D", "F">>) THEN <<"P", "D", "F">>
    ELSE IF StartsWith(techniqueId, <<"S", "C", "R">>) THEN <<"S", "C", "R">>
    ELSE IF StartsWith(techniqueId, <<"S", "L">>) THEN <<"S", "L">>
    ELSE IF StartsWith(techniqueId, <<"S", "M">>) THEN <<"S", "M">>
    ELSE IF StartsWith(techniqueId, <<"S", "V", "R">>) THEN <<"S", "V", "R">>
    ELSE IF techniqueId # <<>> /\ techniqueId[1] \in UpperCase
         THEN <<techniqueId[1]>>
    ELSE <<>>

\* The try block of findTechnique: the existence check, the read, and the
\* catch that turns a failed read into an InternalError
readTechnique(prefix, technology, techniqueId) ==
    LET filePath == techniquePath(technology, techniqueId)
    IN  IF existsSync(filePath)
        THEN IF readFileSync(filePath).ok
             THEN Outcome(Returned(readFileSync(filePath).content),
                          <<ExistsOp(filePath), ReadOp(filePath)>>,
                          "", prefix, technology)
             ELSE Outcome(McpError("InternalError",
                                   <<"Failed to read technique: ">>
                                       \o readFileSync(filePath).error),
                          <<ExistsOp(filePath), ReadOp(filePath)>>,
                          "", prefix, technology)
        ELSE Outcome(McpError("InvalidRequest",
                              <<"Technique not found: ">> \o techniqueId),
                     <<ExistsOp(filePath)>>, "", prefix, technology)

\* findTechnique without the test of the table lookup: an unmapped prefix
\* goes on to the directory "undefined"
findTechnique_NoTableCheck(techniqueId) ==
    LET prefix     == techniquePrefix(techniqueId)
        technology == IF TECHNIQUE_PREFIX_MAP(prefix) = <<>> THEN <<"undefined">>
                      ELSE TECHNIQUE_PREFIX_MAP(prefix)
    IN  IF prefix = <<>>
        THEN Outcome(McpError("InvalidRequest",
                              <<"Invalid technique ID format: ">> \o techniqueId),
                     <<>>, "", <<>>, <<>>)
        ELSE readTechnique(prefix, technology, techniqueId)

findTechnique(techniqueId) ==
    LET prefix     == techniquePrefix(techniqueId)
        technology == TECHNIQUE_PREFIX_MAP(prefix)
    IN  IF prefix = <<>>
        THEN Outcome(McpError("InvalidRequest",
                              <<"Invalid technique ID format: ">> \o techniqueId),
                     <<>>, "", <<>>, <<>>)
        ELSE IF technology = <<>>
        THEN Outcome(McpError("InvalidRequest",
                              <<"Unknown technique prefix: ">> \o prefix),
                     <<>>, "", prefix, <<>>)
        ELSE readTechnique(prefix, technology, techniqueId)

\* readPrinciplesAndGuidelines: reads guidelines/index.html, rethrows a failure
guidelinesIndexPath == pathJoin(wcagBasePath, <<"guidelines", "/", "index", ".", "html">>)

\* readPrinciplesAndGuidelines keeping a copy of what it read beside the
\* source
readPrinciplesAndGuidelines_Cached ==
    LET filePath == guidelinesIndexPath
    IN  IF readFileSync(filePath).ok
        THEN Outcome(Returned(readFileSync(filePath).content),
                     <<ReadOp(filePath),
                       WriteOp(Front(filePath) \o <<<<"index", ".", "cache">>>>,
                               readFileSync(filePath).content)>>,
                     "", <<>>, <<>>)
        ELSE Outcome(PlainError(readFileSync(filePath).error),
                     <<ReadOp(filePath)>>, "", <<>>, <<>>)

readPrinciplesAndGuidelines ==
    LET filePath == guidelinesIndexPath
    IN  IF readFileSync(filePath).ok
        THEN Outcome(Returned(readFileSync(filePath).content),
                     <<ReadOp(filePath)>>, "", <<>>, <<>>)
        ELSE Outcome(PlainError(readFileSync(filePath).error),
                     <<ReadOp(filePath)>>, "", <<>>, <<>>)

---------------------------------------------------------------------------
\* The Document Transformer: TurndownService with headingStyle atx,
\* codeBlockStyle fenced, bulletListMarker "-", emDelimiter one asterisk and
\* strongDelimiter two.  A tag symbol becomes its Markdown marker or nothing,
\* a text symbol stays, and the result is trimmed.

\* new TurndownService({...}): the options of the constructor, the link style
\* it leaves at its default, and the references the instance holds
TurndownService ==
    [options    |-> [headingStyle |-> "atx", codeBlockStyle |-> "fenced",
                     bulletListMarker |-> "-", emDelimiter |-> "*",
                     strongDelimiter |-> "**", linkStyle |-> "inlined"],
     references |-> <<>>]

Anchor == "<a href=\"#a\">"

turndownRule(sym) ==
    CASE sym = "<h1>"      -> <<"# ">>
      [] sym = "<h2>"      -> <<"## ">>
      [] sym = "<h3>"      -> <<"### ">>
      [] sym = "<h4>"      -> <<"#### ">>
      [] sym \in {"</h1>", "</h2>", "</h3>", "</h4>", "</p>"} -> <<"\n\n">>
      [] sym \in {"<em>", "</em>"}     -> <<turndownService.options.emDelimiter>>
      [] sym \in {"<strong>", "</strong>"}
                           -> <<turndownService.options.strongDelimiter>>
      [] sym = "<li>"      ->
            <<turndownService.options.bulletListMarker \o "   ">>
      [] sym = Anchor      -> <<"[">>
      [] sym = "</a>"      ->
            IF turndownService.options.linkStyle = "inlined"
            THEN <<"](#a)">> ELSE <<"][ref]">>
      [] sym = "</li>"     -> <<"\n">>
      [] sym = "<pre><code>"   -> <<"[fence]", "\n">>
      [] sym = "</code></pre>" -> <<"\n", "[fence]", "\n\n">>
      [] sym \in {"<p>", "<ul>", "</ul>", "<section>", "</section>",
                  "<section.principle>", "<section.guideline>", "<section.sc>",
                  "<section data-include=\"", "\">"}  -> <<>>
      [] OTHER             -> <<sym>>

RECURSIVE turndownAll(_)
turndownAll(html) ==
    IF html = <<>> THEN <<>>
    ELSE turndownRule(Head(html)) \o turndownAll(Tail(html))

NewLines == {"\n", "\n\n"}

RECURSIVE TrimNewLines(_)
TrimNewLines(s) ==
    IF s = <<>> THEN s
    ELSE IF Head(s) \in NewLines THEN TrimNewLines(Tail(s))
    ELSE IF Last(s) \in NewLines THEN TrimNewLines(Front(s))
    ELSE s

\* the referenceLink rule: under the referenced link style every link adds a
\* reference to those the instance holds
collected(service, html) ==
    IF service.options.linkStyle = "referenced"
    THEN service.references
             \o [i \in 1..Len(SelectSeq(html, LAMBDA sym : sym = Anchor))
                    |-> "[ref]: #a"]
    ELSE service.references

\* the append of the referenceLink rule: the references held are written
\* after the text
appendReferences(references) ==
    IF references = <<>> THEN <<>> ELSE <<"\n\n">> \o references \o <<"\n\n">>

\* a state-dependent converter: it appends what it holds and then holds
\* a reference more
turndown_Stateful(service, html) ==
    [text    |-> TrimNewLines(turndownAll(html)
                                  \o appendReferences(service.references)),
     service |-> [service EXCEPT !.references = @ \o <<"[ref]: #a">>]]

\* TurndownService.prototype.turndown: the text, and the instance after the
\* call, which holds no reference any more
turndown(service, html) ==
    [text    |-> TrimNewLines(turndownAll(html)
                                  \o appendReferences(collected(service, html))),
     service |-> [service EXCEPT !.references = <<>>]]

\* this.turndownService.turndown(html)
convertHtmlToMarkdown(html) == turndown(turndownService, html).text

---------------------------------------------------------------------------
(* The DOM of jsdom, for well-formed markup: an element has a tag, a class,  *)
(* a data-include or an id attribute and children; a text node has tag       *)
(* "#text".                                                                  *)

IncludeOpen == "<section data-include=\""
IncludeEnd == "\">"

\* <section id="...">, closed by IncludeEnd as the data-include attribute is
IdOpen == "<section id=\""

OpenTags ==
    { "<section>", "<section.principle>", "<section.guideline>", "<section.sc>",
      "<h1>", "<h2>", "<h3>", "<h4>", "<p>", "<ul>", "<li>", "<em>", "<strong>",
      "<p.conformance-level>" }

CloseTags ==
    { "</section>", "</h1>", "</h2>", "</h3>", "</h4>", "</p>", "</ul>", "</li>",
      "</em>", "</strong>" }

TagOf(sym) ==
    CASE sym \in {"<section>", "<section.principle>", "<section.guideline>",
                  "<section.sc>"} -> "section"
      [] sym = "<h1>" -> "h1"
      [] sym = "<h2>" -> "h2"
      [] sym = "<h3>" -> "h3"
      [] sym = "<h4>" -> "h4"
      [] sym \in {"<p>", "<p.conformance-level>"} -> "p"
      [] sym = "<ul>" -> "ul"
      [] sym = "<li>" -> "li"
      [] sym = "<em>" -> "em"
      [] sym = "<strong>" -> "strong"

ClassOf(sym) ==
    CASE sym = "<section.principle>" -> "principle"
      [] sym = "<section.guideline>" -> "guideline"
      [] sym = "<section.sc>"        -> "sc"
      [] sym = "<p.conformance-level>" -> "conformance-level"
      [] OTHER                       -> ""

Element(tag, class, hasInclude, include, kids) ==
    [tag |-> tag, class |-> class, hasInclude |-> hasInclude,
     include |-> include, kids |-> kids, text |-> "", prev |-> "",
     hasId |-> FALSE, id |-> <<>>]

TextNode(sym) ==
    [tag |-> "#text", class |-> "", hasInclude |-> FALSE,
     include |-> <<>>, kids |-> <<>>, text |-> sym, prev |-> "",
     hasId |-> FALSE, id |-> <<>>]

\* the position of the first IncludeEnd at or after i (Len + 1 when none)
RECURSIVE IncludeEndFrom(_, _)
IncludeEndFrom(html, i) ==
    IF i > Len(html) \/ html[i] = IncludeEnd THEN i
    ELSE IncludeEndFrom(html, i + 1)

\* new JSDOM(html): the sibling nodes that start at position i, up to the
\* closing tag of their parent; .next is the position after that closing tag
RECURSIVE ParseFrom(_, _)
ParseFrom(html, i) ==
    IF i > Len(html) THEN [nodes |-> <<>>, next |-> i]
    ELSE IF html[i] \in CloseTags THEN [nodes |-> <<>>, next |-> i + 1]
    ELSE IF html[i] = IncludeOpen
    THEN LET j     == IncludeEndFrom(html, i + 1)
             inner == ParseFrom(html, j + 1)
             rest  == ParseFrom(html, inner.next)
         IN  [nodes |-> <<Element("section", "", TRUE,
                                  SubSeq(html, i + 1, j - 1), inner.nodes)>>
                            \o rest.nodes,
              next  |-> rest.next]
    ELSE IF html[i] = IdOpen
    THEN LET j     == IncludeEndFrom(html, i + 1)
             inner == ParseFrom(html, j + 1)
             rest  == ParseFrom(html, inner.next)
         IN  [nodes |-> <<[Element("section", "", FALSE, <<>>, inner.nodes)
                              EXCEPT !.hasId = TRUE,
                                     !.id = SubSeq(html, i + 1, j - 1)]>>
                            \o rest.nodes,
              next  |-> rest.next]
    ELSE IF html[i] \in OpenTags
    THEN LET inner == ParseFrom(html, i + 1)
             rest  == ParseFrom(html, inner.next)
         IN  [nodes |-> <<Element(TagOf(html[i]), ClassOf(html[i]), FALSE,
                                  <<>>, inner.nodes)>> \o rest.nodes,
              next  |-> rest.next]
    ELSE LET rest == ParseFrom(html, i + 1)
         IN  [nodes |-> <<TextNode(html[i])>> \o rest.nodes, next |-> rest.next]

JSDOM(html) == ParseFrom(html, 1).nodes

\* The elements under `nodes` in document order; .prev is the tag of the
\* element sibling just before (for the selector "h2 + p")
RECURSIVE Elements(_, _)
Elements(nodes, prev) ==
    IF nodes = <<>> THEN <<>>
    ELSE LET n == Head(nodes)
         IN  IF n.tag = "#text" THEN Elements(Tail(nodes), prev)
             ELSE <<[n EXCEPT !.prev = prev]>> \o Elements(n.kids, "")
                      \o Elements(Tail(nodes), n.tag)

\* node.textContent
RECURSIVE textContent(_)
textContent(nodes) ==
    IF nodes = <<>> THEN <<>>
    ELSE LET n == Head(nodes)
         IN  (IF n.tag = "#text" THEN <<n.text>> ELSE textContent(n.kids))
                 \o textContent(Tail(nodes))

WhiteSpace == {" ", "\n", "\n\n"}

\* String.prototype.trim
RECURSIVE trim(_)
trim(s) ==
    IF s = <<>> THEN s
    ELSE IF Head(s) \in WhiteSpace THEN trim(Tail(s))
    ELSE IF Last(s) \in WhiteSpace THEN trim(Front(s))
    ELSE s

IsPrinciple(n) == n.tag = "section" /\ n.class = "principle"
IsGuideline(n) == n.tag = "section" /\ n.class = "guideline"
IsInclude(n)   == n.tag = "section" /\ n.hasInclude
IsScSection(n) == n.tag = "section" /\ n.class = "sc"
IsIdSection(n) == n.tag = "section" /\ n.hasId
IsSection(n)   == n.tag = "section"
IsLevel(n)     == n.class = "conformance-level"
IsH2(n)        == n.tag = "h2"
IsH2P(n)       == n.tag = "p" /\ n.prev = "h2"
IsH3(n)        == n.tag = "h3"
IsH3P(n)       == n.tag = "p" /\ n.prev = "h3"
IsH4(n)        == n.tag = "h4"

\* querySelector(sel)?.textContent?.trim() || ''  over the given matches
firstText(matches) ==
    IF matches = <<>> THEN <<>> ELSE trim(textContent(matches[1].kids))

---------------------------------------------------------------------------
(* The Structural Extractor (extractGuidelinesContent). *)

\* path.join(process.cwd(), 'wcag-criteria.json'); paths are relative to cwd
criteriaPath == pathJoin(<<".">>, <<"wcag-criteria", ".", "json">>)

\* criteriaData.criteria after the inner try / catch: the parsed list, or
\* nothing when the file is missing, unreadable or not JSON
criteriaData ==
    IF readFileSync(criteriaPath).ok /\ files[criteriaPath].json.valid
    THEN files[criteriaPath].json.criteria
    ELSE <<>>

\* includePath.split('/').pop().split('.')[0]
criterionIdOf(includePath) == Split(Last(Split(includePath, "/")), ".")[1]

\* criteriaData.criteria?.find(c => c.id === criterionId)?.content || ''
scContent(criterionId) ==
    LET hits == SelectSeq(criteriaData, LAMBDA c : c.id = criterionId)
    IN  IF hits = <<>> THEN <<>> ELSE hits[1].content

Threw(error) == [threw |-> TRUE, text |-> error]
Text(text) == [threw |-> FALSE, text |-> text]

\* criteria.forEach with the counter incremented after the line is written
criterionLine_ZeroBased(criterion, principleNumber, guidelineNumber, criterionNumber) ==
    LET criterionId == criterionIdOf(criterion.include)
        scs == SelectSeq(Elements(JSDOM(scContent(criterionId)), ""), IsScSection)
        scTitle == firstText(SelectSeq(Elements(scs[1].kids, ""), IsH4))
    IN  IF scs = <<>>
        THEN Threw(<<"TypeError: Cannot read properties of null">>)
        ELSE Text(<<"- [", ToString(principleNumber), ".", ToString(guidelineNumber),
                    ".", ToString(criterionNumber - 1), " ">> \o scTitle
                  \o <<"](", "wcag:", "/", "/", "criteria", "/">> \o criterionId
                  \o <<")", "\n">>)

\* One pass of criteria.forEach: the line of one section[data-include].
\* sc.querySelector throws a TypeError when the criterion's content holds no
\* section.sc (sc is null).
criterionLine(criterion, principleNumber, guidelineNumber, criterionNumber) ==
    LET criterionId == criterionIdOf(criterion.include)
        scs == SelectSeq(Elements(JSDOM(scContent(criterionId)), ""), IsScSection)
        scTitle == firstText(SelectSeq(Elements(scs[1].kids, ""), IsH4))
    IN  IF scs = <<>>
        THEN Threw(<<"TypeError: Cannot read properties of null">>)
        ELSE Text(<<"- [", ToString(principleNumber), ".", ToString(guidelineNumber),
                    ".", ToString(criterionNumber), " ">> \o scTitle
                  \o <<"](", "wcag:", "/", "/", "criteria", "/">> \o criterionId
                  \o <<")", "\n">>)

\* a then b, unless one of them threw
Then(a, b) ==
    IF a.threw THEN a ELSE IF b.threw THEN b ELSE Text(a.text \o b.text)

RECURSIVE criteriaLines(_, _, _, _)
criteriaLines(criteria, principleNumber, guidelineNumber, k) ==
    IF k > Len(criteria) THEN Text(<<>>)
    ELSE Then(criterionLine(criteria[k], principleNumber, guidelineNumber, k),
              criteriaLines(criteria, principleNumber, guidelineNumber, k + 1))

\* One pass of guidelines.forEach
guidelineBlock(guideline, principleNumber, guidelineNumber) ==
    LET inside == Elements(guideline.kids, "")
        guidelineTitle == firstText(SelectSeq(inside, IsH3))
        guidelineDescription == firstText(SelectSeq(inside, IsH3P))
        criteria == SelectSeq(inside, IsInclude)
    IN  Then(Text(<<"### ">> \o guidelineTitle \o <<"\n\n">>
                  \o guidelineDescription \o <<"\n\n">>),
             Then(criteriaLines(criteria, principleNumber, guidelineNumber, 1),
                  Text(<<"\n">>)))

RECURSIVE guidelineBlocks(_, _, _)
guidelineBlocks(guidelines, principleNumber, k) ==
    IF k > Len(guidelines) THEN Text(<<>>)
    ELSE Then(guidelineBlock(guidelines[k], principleNumber, k),
              guidelineBlocks(guidelines, principleNumber, k + 1))

\* One pass of principles.forEach
principleBlock(principle, principleNumber) ==
    LET inside == Elements(principle.kids, "")
        principleTitle == firstText(SelectSeq(inside, IsH2))
        principleDescription == firstText(SelectSeq(inside, IsH2P))
        guidelines == SelectSeq(inside, IsGuideline)
    IN  Then(Text(<<"## ">> \o principleTitle \o <<"\n\n">>
                  \o principleDescription \o <<"\n\n">>),
             guidelineBlocks(guidelines, principleNumber, 1))

RECURSIVE principleBlocks(_, _)
principleBlocks(principles, k) ==
    IF k > Len(principles) THEN Text(<<>>)
    ELSE Then(principleBlock(principles[k], k), principleBlocks(principles, k + 1))

\* extractGuidelinesContent returning the error itself from its catch
extractGuidelinesContent_ErrorOnly(html) ==
    LET principles == SelectSeq(Elements(JSDOM(html), ""), IsPrinciple)
        markdown == principleBlocks(principles, 1)
    IN  markdown.text

\* extractGuidelinesContent(html): the outline, or the error text of the
\* outer catch
extractGuidelinesContent(html) ==
    LET principles == SelectSeq(Elements(JSDOM(html), ""), IsPrinciple)
        markdown == principleBlocks(principles, 1)
    IN  IF markdown.threw
        THEN <<"# Error Processing WCAG Guidelines", "\n\n",
               "An error occurred while processing the WCAG guidelines: ">>
                 \o markdown.text \o <<"\n">>
        ELSE markdown.text

---------------------------------------------------------------------------
(* The offline generator of the outline (generate-principles-guidelines.js), *)
(* whose extractGuidelinesContent reads the criteria embedded in the source. *)

\* One pass of criteria.forEach: the line of one section[id]
criterionLineOffline(criterion, principleNumber, guidelineNumber, criterionNumber) ==
    LET criterionId == criterion.id
        criterionTitle == firstText(SelectSeq(Elements(criterion.kids, ""), IsH4))
    IN  <<"- [", ToString(principleNumber), ".", ToString(guidelineNumber),
          ".", ToString(criterionNumber), " ">> \o criterionTitle
            \o <<"](", "wcag:", "/", "/", "criteria", "/">> \o criterionId
            \o <<")", "\n">>

\* One pass of guidelines.forEach
guidelineBlockOffline(guideline, principleNumber, guidelineNumber) ==
    LET inside == Elements(guideline.kids, "")
        guidelineTitle == firstText(SelectSeq(inside, IsH3))
        guidelineDescription == firstText(SelectSeq(inside, IsH3P))
        criteria == SelectSeq(inside, IsIdSection)
    IN  <<"### ">> \o guidelineTitle \o <<"\n\n">>
            \o guidelineDescription \o <<"\n\n">>
            \o Flatten([k \in 1..Len(criteria) |->
                         criterionLineOffline(criteria[k], principleNumber,
                                              guidelineNumber, k)])
            \o <<"\n">>

\* One pass of principles.forEach
principleBlockOffline(principle, principleNumber) ==
    LET inside == Elements(principle.kids, "")
        principleTitle == firstText(SelectSeq(inside, IsH2))
        principleDescription == firstText(SelectSeq(inside, IsH2P))
        guidelines == SelectSeq(inside, IsGuideline)
    IN  <<"## ">> \o principleTitle \o <<"\n\n">>
            \o principleDescription \o <<"\n\n">>
            \o Flatten([k \in 1..Len(guidelines) |->
                         guidelineBlockOffline(guidelines[k], principleNumber, k)])

\* extractGuidelinesContent(html) of the generator; nothing in it throws
extractGuidelinesContentOffline(html) ==
    LET principles == SelectSeq(Elements(JSDOM(html), ""), IsPrinciple)
    IN  Flatten([k \in 1..Len(principles) |-> principleBlockOffline(principles[k], k)])

\* const outputPath = 'principles-guidelines.md'
outputPath == pathJoin(<<".">>, <<"principles-guidelines", ".", "md">>)

---------------------------------------------------------------------------
(* The offline indexer (part_000, extractCriteria), which writes            *)
(* wcag-criteria.json.                                                       *)

\* glob(baseDir + '/guidelines/sc/*/*.html'): the paths two levels below
\* guidelines/sc whose name ends in .html, files and directories alike
globCriteria ==
    {file \in DOMAIN files :
        /\ Len(file) = 6
        /\ SubSeq(file, 1, 4) = pathJoin(wcagBasePath, <<"guidelines", "/", "sc">>)
        /\ Len(file[6]) > 2
        /\ SubSeq(file[6], Len(file[6]) - 1, Len(file[6])) = DotHtml}

\* file.match(/guidelines\/sc\/(\d+)\//): the directory when it is a number
versionOf(file) ==
    IF file[5] \in {<<versions[i]>> : i \in 1..Len(versions)} THEN file[5][1]
    ELSE "unknown"

\* path.basename(file, '.html')
basename(file) == SubSeq(Last(file), 1, Len(Last(file)) - 2)

\* The record of one file, or nothing when the file cannot be read or holds
\* no section (a sequence of one record or of none)
recordOf(file) ==
    LET content  == readFileSync(file).content
        document == Elements(JSDOM(content), "")
        sections == SelectSeq(document, IsSection)
    IN  IF ~readFileSync(file).ok \/ sections = <<>> THEN <<>>
        ELSE <<[id      |-> IF sections[1].id # <<>> THEN sections[1].id
                            ELSE basename(file),
                version |-> versionOf(file),
                level   |-> firstText(SelectSeq(document, IsLevel)),
                title   |-> firstText(SelectSeq(document, IsH4)),
                content |-> trim(content)]>>

\* The place of a symbol in the collation of localeCompare: punctuation,
\* then digits, then letters
Collation == <<"-", ".", "20", "21", "22", "a", "b", "c", "unknown", "x">>
Rank(sym) == CHOOSE i \in 1..Len(Collation) : Collation[i] = sym

\* a.localeCompare(b) < 0, for strings of the collated symbols
RECURSIVE precedes(_, _)
precedes(a, b) ==
    IF b = <<>> THEN FALSE
    ELSE IF a = <<>> THEN TRUE
    ELSE IF Head(a) # Head(b) THEN Rank(Head(a)) < Rank(Head(b))
    ELSE precedes(Tail(a), Tail(b))

\* the comparator of the sort taking the identifiers alone
comesBefore_IdOnly(a, b) == precedes(a.id, b.id)

\* the comparator of criteria.sort: negative when a comes before b
comesBefore(a, b) ==
    IF a.version # b.version THEN precedes(<<a.version>>, <<b.version>>)
    ELSE precedes(a.id, b.id)

\* Array.prototype.sort, which is stable: the records one by one, each put
\* after the last record that does not come after it
RECURSIVE sort(_)
sort(criteria) ==
    IF criteria = <<>> THEN <<>>
    ELSE LET sorted == sort(Front(criteria))
             r      == Last(criteria)
             keep   == Cardinality({i \in 1..Len(sorted) :
                                        \E j \in i..Len(sorted) :
                                            ~comesBefore(r, sorted[j])})
         IN  SubSeq(sorted, 1, keep) \o <<r>> \o SubSeq(sorted, keep + 1, Len(sorted))

---------------------------------------------------------------------------
(* The Resource Facade: the ListResources, ListResourceTemplates and        *)
(* ReadResource handlers.                                                   *)

UriScheme == <<"wcag:", "/", "/">>
OutlineUri == UriScheme \o <<"principles-guidelines">>
CriteriaRoot == UriScheme \o <<"criteria", "/">>
UnderstandingRoot == UriScheme \o <<"understanding", "/">>
TechniquesRoot == UriScheme \o <<"techniques", "/">>

\* the criterion and understanding pattern with ([^.]+) for its group
matchAny_NoDots(uri, root) ==
    LET rest == SubSeq(uri, Len(root) + 1, Len(uri))
    IN  IF StartsWith(uri, root) /\ rest # <<>> /\ ~Contains(rest, ".")
        THEN rest ELSE <<>>

\* uri.match(/^<root>(.+)$/): the captured group, or <<>> when there is no match
matchAny(uri, root) ==
    LET rest == SubSeq(uri, Len(root) + 1, Len(uri))
    IN  IF StartsWith(uri, root) /\ rest # <<>>
           /\ \A i \in 1..Len(rest) : rest[i] \notin LineTerminators
        THEN rest ELSE <<>>

\* the technique pattern with (.+) for its group, as the other two have
matchNoSlash_AnyChars(uri, root) ==
    LET rest == SubSeq(uri, Len(root) + 1, Len(uri))
    IN  IF StartsWith(uri, root) /\ rest # <<>>
           /\ \A i \in 1..Len(rest) : rest[i] \notin LineTerminators
        THEN rest ELSE <<>>

\* uri.match(/^<root>([^/]+)$/): the captured group, or <<>>
matchNoSlash(uri, root) ==
    LET rest == SubSeq(uri, Len(root) + 1, Len(uri))
    IN  IF StartsWith(uri, root) /\ rest # <<>> /\ ~Contains(rest, "/")
        THEN rest ELSE <<>>

\* the media type each source of the server advertises
mimeType == IF impl = "js" THEN "text/markdown" ELSE "text/html"

Result(uri, text) ==
    [isError |-> FALSE, code |-> "", message |-> <<>>, resources |-> <<>>,
     contents |-> <<[uri |-> uri, mimeType |-> mimeType, text |-> text]>>]

Failure(code, message) ==
    [isError |-> TRUE, code |-> code, message |-> message, resources |-> <<>>,
     contents |-> <<>>]

Listing(resources) ==
    [isError |-> FALSE, code |-> "", message |-> <<>>, resources |-> resources,
     contents |-> <<>>]

\* the catch of the read handler: an McpError is rethrown, anything else
\* becomes an InternalError
rethrow(error) ==
    IF error.code = "Error"
    THEN Failure("InternalError", <<"Failed to read resource: ">> \o error.message)
    ELSE Failure(error.code, error.message)

\* what the handler does with the markup a resolver returned: part_001
\* converts it, index.ts returns it as it is
transform(html) == IF impl = "js" THEN convertHtmlToMarkdown(html) ELSE html

\* the outline branch: part_001 extracts the outline, index.ts returns the file
outlineText(html) == IF impl = "js" THEN extractGuidelinesContent(html) ELSE html

\* the converter instance after the handler: part_001 has run turndown on the
\* markup of a criterion, an understanding document or a technique
converterAfter(name, outcome) ==
    IF impl = "js" /\ ~outcome.result.threw /\ name # "readPrinciplesAndGuidelines"
    THEN turndown(turndownService, outcome.result.content).service
    ELSE turndownService

Handled(name, outcome, uri, text, extraOps) ==
    [called   |-> name,
     ops      |-> outcome.ops \o extraOps,
     lookup   |-> [version |-> outcome.version, prefix |-> outcome.prefix,
                   technology |-> outcome.technology],
     response |-> IF outcome.result.threw THEN rethrow(outcome.result)
                  ELSE Result(uri, text),
     service  |-> converterAfter(name, outcome)]

NoLookup == [version |-> "", prefix |-> <<>>, technology |-> <<>>]

\* no resolver was called
NoOutcome == Outcome(Returned(<<>>), <<>>, "", <<>>, <<>>)

\* the read handler up to its await: the branch the URI takes and the
\* settled promise of the resolver, which runs without a pause
dispatch(uri) ==
    IF uri = OutlineUri
    THEN [called |-> "readPrinciplesAndGuidelines",
          outcome |-> readPrinciplesAndGuidelines]
    ELSE IF matchAny(uri, CriteriaRoot) # <<>>
    THEN [called |-> "findCriterion",
          outcome |-> findCriterion(matchAny(uri, CriteriaRoot))]
    ELSE IF matchAny(uri, UnderstandingRoot) # <<>>
    THEN [called |-> "findUnderstanding",
          outcome |-> findUnderstanding(matchAny(uri, UnderstandingRoot))]
    ELSE IF matchNoSlash(uri, TechniquesRoot) # <<>>
    THEN [called |-> "findTechnique",
          outcome |-> findTechnique(matchNoSlash(uri, TechniquesRoot))]
    ELSE [called |-> "none", outcome |-> NoOutcome]

\* the throw at the end of the read handler, which no await precedes
invalidUri(uri) ==
    [called |-> "none", ops |-> <<>>, lookup |-> NoLookup,
     response |-> Failure("InvalidRequest", <<"Invalid URI: ">> \o uri),
     service |-> turndownService]

\* the read handler after its await: the markup htmlContent of the resolver
\* is converted and returned, a rejection is caught
resume(uri, name, htmlContent) ==
    IF name = "readPrinciplesAndGuidelines"
    THEN Handled(name, htmlContent, uri,
                 outlineText(htmlContent.result.content),
                 IF impl = "js" /\ ~htmlContent.result.threw
                 THEN <<ReadOp(criteriaPath)>> ELSE <<>>)
    ELSE Handled(name, htmlContent, uri,
                 transform(htmlContent.result.content), <<>>)

\* the ReadResourceRequestSchema handler
readResource(uri) ==
    LET d == dispatch(uri)
    IN  IF d.called = "none" THEN invalidUri(uri)
        ELSE resume(uri, d.called, d.outcome)

\* the ListResourcesRequestSchema handler
listResources ==
    Listing(<<[uri |-> OutlineUri, mimeType |-> mimeType]>>)

\* the ListResourceTemplatesRequestSchema handler
listResourceTemplates ==
    Listing(<<[uri |-> CriteriaRoot \o <<"{criterion-id}">>, mimeType |-> mimeType],
              [uri |-> UnderstandingRoot \o <<"{criterion-id}">>, mimeType |-> mimeType],
              [uri |-> TechniquesRoot \o <<"{technique-id}">>, mimeType |-> mimeType]>>)

---------------------------------------------------------------------------
(* The corpus on disk and the requests of the model. *)

\* the longest run of symbols appended to a stem to make a technique id
MaxSuffixLen == 1

Status == {"absent", "file", "dir"}

NoJson == [valid |-> FALSE, criteria |-> <<>>]

FileEntry(content) == [kind |-> "file", content |-> content, json |-> NoJson]
DirEntry == [kind |-> "dir", content |-> <<>>, json |-> NoJson]
JsonEntry(criteria) ==
    [kind |-> "file", content |-> <<"{json}">>,
     json |-> [valid |-> TRUE, criteria |-> criteria]]

At(path, status, content) ==
    IF status = "absent" THEN {}
    ELSE {[path |-> path,
           entry |-> IF status = "file" THEN FileEntry(content) ELSE DirEntry]}

MakeFs(S) ==
    [p \in {e.path : e \in S} |-> (CHOOSE e \in S : e.path = p).entry]

\* the file system after fs.writeFileSync(filePath, data)
writeFileSync(fs, filePath, data) ==
    [p \in DOMAIN fs \cup {filePath} |->
        IF p = filePath THEN FileEntry(data) ELSE fs[p]]

\* the file system after the calls of a handler: only a write changes it
RECURSIVE Effect(_, _)
Effect(fs, calls) ==
    IF calls = <<>> THEN fs
    ELSE Effect(IF Head(calls).op = "writeFileSync"
                THEN writeFileSync(fs, Head(calls).path, Head(calls).data)
                ELSE fs,
                Tail(calls))

Root == <<DotDot, <<"wcag">>>>

IdA == <<"a">>

ScDoc(v) ==
    <<"<section.sc>", "<h4>", "Title of a", "</h4>", "<p>", "criterion a of ", v,
      "</p>", "</section>">>

UnderstandingDoc(v) ==
    <<"<h1>", "Understanding a", "</h1>", "<p>", "understanding a of ", v,
      Anchor, "criterion a", "</a>", "</p>">>

TechniqueDoc(technology, id) ==
    <<"<h1>">> \o id \o <<"</h1>", "<ul>", "<li>">> \o technology
        \o <<"</li>", "</ul>">>

GuidelinesIndexDoc ==
    <<"<section.principle>", "<h2>", "Perceivable", "</h2>", "<p>", "P1", "</p>",
      "<section.guideline>", "<h3>", "Text Alternatives", "</h3>", "<p>", "G1",
      "</p>", IncludeOpen, "sc", "/", "20", "/", "a", ".", "html", IncludeEnd,
      "</section>", "</section>", "</section>">>

\* the technique files of the corpus: (technology directory, identifier)
TechniqueFiles ==
    { <<"aria", <<"A", "R", "I", "A", "1">>>>,
      <<"css", <<"C", "1">>>>,
      <<"failures", <<"F", "1">>>>,
      <<"flash", <<"F", "L", "A", "S", "H", "1">>>>,
      <<"general", <<"G", "1">>>>,
      <<"html", <<"H", "1">>>>,
      <<"html", <<"H", "4", "4">>>>,
      <<"pdf", <<"P", "D", "F", "1">>>>,
      <<"client-side-script", <<"S", "C", "R", "1">>>>,
      <<"client-side-script", <<"S", "C", "R", "2", "1">>>>,
      <<"silverlight", <<"S", "L", "1">>>>,
      <<"smil", <<"S", "M", "1">>>>,
      <<"server-side-script", <<"S", "V", "R", "1">>>>,
      <<"text", <<"T", "1">>>> }

\* files named like a multi-letter technique but lying in the directory of
\* another prefix
DecoyFiles ==
    { <<"failures", <<"F", "L", "A", "S", "H", "1">>>>,
      <<"general", <<"S", "C", "R", "1">>>> }

TechniqueAt(t) == Root \o <<<<"techniques">>, <<t[1]>>, t[2] \o DotHtml>>

\* The corpus with criterion a and its understanding document in the given
\* state under each version, the technique files in the given state, the
\* decoys present or not, and the outline source and criteria side-file
Corpus(sc, und, tech, decoys, outline) ==
    MakeFs(
        UNION { At(Root \o <<<<"guidelines">>, <<"sc">>, <<versions[i]>>, IdA \o DotHtml>>,
                   sc[i], ScDoc(versions[i])) : i \in 1..3 }
        \cup UNION { At(Root \o <<<<"understanding">>, <<versions[i]>>, IdA \o DotHtml>>,
                        und[i], UnderstandingDoc(versions[i])) : i \in 1..3 }
        \cup UNION { At(TechniqueAt(t), tech, TechniqueDoc(t[1], t[2])) :
                        t \in TechniqueFiles }
        \cup UNION { At(TechniqueAt(t), IF decoys THEN "file" ELSE "absent",
                        <<"decoy">>) : t \in DecoyFiles }
        \cup At(Root \o <<<<"guidelines">>, <<"index", ".", "html">>>>, outline,
                GuidelinesIndexDoc)
        \cup {[path |-> <<<<"wcag-criteria", ".", "json">>>>,
               entry |-> JsonEntry(<<[id |-> IdA, title |-> <<"Title of a">>,
                                      content |-> ScDoc("20")]>>)]})

\* technique identifiers: each prefix of a key of the table, and a few other
\* leads, followed by at most MaxSuffixLen digits
Prefixes(k) == {SubSeq(k, 1, n) : n \in 1..Len(k)}
Stems ==
    UNION {Prefixes(k) : k \in PrefixKeys}
        \cup {<<>>, <<"X">>, <<"s">>, <<"9">>, <<"f", "l", "a", "s", "h">>}
Suffixes == {[i \in 1..n |-> "1"] : n \in 0..MaxSuffixLen}
TechniqueIds ==
    {s \o t : s \in Stems, t \in Suffixes}
        \cup {<<"H", "4", "4">>, <<"S", "C", "R", "2", "1">>, <<"S", "9", "9">>}

\* the requests of Spec: the outline, criterion a and its understanding
\* document, some techniques, the addresses as the README writes them, and
\* addresses of no known shape
FixedUris ==
    { OutlineUri,
      CriteriaRoot \o IdA,
      CriteriaRoot \o <<"b">>,
      CriteriaRoot \o <<"22", "/", "a">>,
      UnderstandingRoot \o IdA,
      UnderstandingRoot \o <<"b">>,
      UnderstandingRoot \o <<"22", "/", "a">>,
      TechniquesRoot \o <<"H", "4", "4">>,
      TechniquesRoot \o <<"S", "C", "R", "2", "1">>,
      TechniquesRoot \o <<"F", "L", "A", "S", "H", "1">>,
      TechniquesRoot \o <<"H", "9">>,
      TechniquesRoot \o <<"S", "9", "9">>,
      TechniquesRoot \o <<"s", "1">>,
      TechniquesRoot \o <<"html", "/", "H", "4", "4">>,
      CriteriaRoot,
      UnderstandingRoot,
      TechniquesRoot,
      UriScheme \o <<"criteria">>,
      UriScheme \o <<"principles-guidelines", "/">>,
      UriScheme \o <<"other", "/", "a">>,
      CriteriaRoot \o <<"a", "\n", "b">>,
      <<"http:", "/", "/", "criteria", "/", "a">>,
      <<>> }

TechniqueUris == {TechniquesRoot \o id : id \in TechniqueIds}

NoRequest == <<"(none)">>

\* The corpora of Spec: around a base corpus (criterion a under 20 and 22,
\* its understanding document under 21 and, unreadable, under 22), every
\* state of the three criterion files, of the three understanding files, of
\* the technique files and of the outline source
BaseSc == <<"file", "absent", "file">>
BaseUnd == <<"absent", "file", "dir">>

Corpora ==
    {Corpus(sc, BaseUnd, "file", FALSE, "file") : sc \in [1..3 -> Status]}
        \cup {Corpus(BaseSc, und, "file", FALSE, "file") : und \in [1..3 -> Status]}
        \cup {Corpus(BaseSc, BaseUnd, tech, decoys, outline) :
                  tech \in Status, decoys \in BOOLEAN, outline \in Status}

\* The corpora of SpecTechniques: the technique files, the decoys and the
\* criterion files vary together
TechniqueCorpora ==
    {Corpus(<<"absent", sc, "absent">>, BaseUnd, tech, decoys, "file") :
         tech \in Status, decoys \in BOOLEAN, sc \in {"absent", "file"}}

\* The outline sources of SpecOutline: at most MaxPrinciples principles, each
\* with at most MaxGuidelines guidelines that hold the same number, at most
\* MaxCriteria, of criterion references
MaxPrinciples == 2
MaxGuidelines == 2
MaxCriteria == 2

\* <section data-include="sc/20/<id>.html"></section>
CriterionRef(id) ==
    <<IncludeOpen, "sc", "/", "20", "/">> \o id \o <<".", "html", IncludeEnd,
      "</section>">>

\* the identifier of the k-th reference of a guideline, taken in turn from
\* the pattern
PatternId(pattern, k) == pattern[((k - 1) % Len(pattern)) + 1]

GuidelineSource(g, criteria, pattern, described) ==
    <<"<section.guideline>", "<h3>", "Guideline ", ToString(g), "</h3>">>
        \o (IF described THEN <<"<p>", "about guideline ", ToString(g), "</p>">>
            ELSE <<>>)
        \o Flatten([k \in 1..criteria |-> CriterionRef(PatternId(pattern, k))])
        \o <<"</section>">>

PrincipleSource(p, shape, pattern, described) ==
    <<"<section.principle>", "<h2>", "Principle ", ToString(p), "</h2>">>
        \o (IF described THEN <<"<p>", "about principle ", ToString(p), "</p>">>
            ELSE <<>>)
        \o Flatten([g \in 1..shape.guidelines |->
                        GuidelineSource(g, shape.criteria, pattern, described)])
        \o <<"</section>">>

\* guidelines/index.html with one principle per shape
OutlineSource(shapes, pattern, described) ==
    <<"<h1>", "Guidelines", "</h1>">>
        \o Flatten([p \in 1..Len(shapes) |->
                        PrincipleSource(p, shapes[p], pattern, described)])

PrincipleShapes ==
    {[guidelines |-> 0, criteria |-> 0]}
        \cup [guidelines : 1..MaxGuidelines, criteria : 0..MaxCriteria]

OutlineShapes == UNION {[1..n -> PrincipleShapes] : n \in 0..MaxPrinciples}

\* Criterion a has a title in the index, b has a record without a heading, c
\* has no record, and d has a record whose markup holds no section of class sc
IdPatterns ==
    { <<<<"a">>>>, <<<<"a">>, <<"b">>>>, <<<<"b">>, <<"a">>>>,
      <<<<"a">>, <<"c">>>>, <<<<"a">>, <<"d">>>> }

\* wcag-criteria.json as part_000 writes it (the fields the server reads, and
\* the title)
CriteriaIndex ==
    << [id |-> <<"a">>, title |-> <<"Title of a">>, content |-> ScDoc("20")],
       [id |-> <<"a">>, title |-> <<"Title of a">>, content |-> ScDoc("22")],
       [id |-> <<"b">>, title |-> <<>>,
        content |-> <<"<section.sc>", "<p>", "criterion b", "</p>", "</section>">>],
       [id |-> <<"d">>, title |-> <<"Title of d">>,
        content |-> <<"<section>", "<h4>", "Title of d", "</h4>", "</section>">>] >>

IndexStatus == {"valid", "invalid", "absent", "dir"}

IndexAt(status) ==
    IF status = "absent" THEN {}
    ELSE {[path  |-> <<<<"wcag-criteria", ".", "json">>>>,
           entry |-> CASE status = "valid"   -> JsonEntry(CriteriaIndex)
                       [] status = "invalid" -> FileEntry(<<"{json">>)
                       [] status = "dir"     -> DirEntry]}

\* the base corpus with the given outline source and criteria side-file
OutlineCorpus(source, sourceStatus, index) ==
    LET base == Corpus(BaseSc, BaseUnd, "absent", FALSE, "absent")
    IN  MakeFs({[path |-> p, entry |-> base[p]] :
                    p \in DOMAIN base \ {<<<<"wcag-criteria", ".", "json">>>>}}
               \cup At(Root \o <<<<"guidelines">>, <<"index", ".", "html">>>>,
                       sourceStatus, source)
               \cup IndexAt(index))

\* The corpora of SpecOutline.  Every outline shape comes with each pattern
\* of identifiers under the loaded index, without its descriptions, and, for
\* the pattern a, b, under each other state of the side-file; a missing, an
\* unreadable, an empty and a malformed outline source are added
OutlineCorpora ==
    {OutlineCorpus(OutlineSource(shapes, pattern, TRUE), "file", "valid") :
         shapes \in OutlineShapes, pattern \in IdPatterns}
        \cup {OutlineCorpus(OutlineSource(shapes, <<<<"a">>, <<"b">>>>, FALSE),
                            "file", "valid") : shapes \in OutlineShapes}
        \cup {OutlineCorpus(OutlineSource(shapes, <<<<"a">>, <<"b">>>>, TRUE),
                            "file", index) :
                  shapes \in OutlineShapes, index \in IndexStatus}
        \cup {OutlineCorpus(<<>>, status, "valid") : status \in {"absent", "dir"}}
        \cup {OutlineCorpus(source, "file", "valid") :
                  source \in {<<>>, <<"</p>", "<h2>", "<">>}}

\* the clients with a read request in flight at the same time
MaxClients == 2
Clients == 1..MaxClients

\* the corpora of SpecConcurrent: the base corpus, and the base corpus
\* without the outline source and without a readable criterion
ConcurrentCorpora ==
    {Corpus(BaseSc, BaseUnd, "file", FALSE, "file"),
     Corpus(<<"absent", "dir", "absent">>, BaseUnd, "file", FALSE, "absent")}

\* the requests of SpecConcurrent
ConcurrentUris ==
    {OutlineUri, CriteriaRoot \o IdA, UnderstandingRoot \o IdA,
     <<"wcag:", "/", "/", "nothing">>}

\* a file beside the corpus root, and the corpora of SpecTraversal: the base
\* corpus with that file and the 2.1 understanding document in every state
OutsidePath == <<DotDot, <<"secret", ".", "html">>>>

TraversalCorpora ==
    {[p \in DOMAIN Corpus(BaseSc, <<"absent", und, "dir">>, "file", FALSE, "file")
            \cup DOMAIN MakeFs(At(OutsidePath, outside, <<"secret">>)) |->
         IF p = OutsidePath
         THEN MakeFs(At(OutsidePath, outside, <<"secret">>))[p]
         ELSE Corpus(BaseSc, <<"absent", und, "dir">>, "file", FALSE, "file")[p]] :
        und \in Status, outside \in Status}

\* identifiers that climb out of the directory of their kind
UpTo(n) == [i \in 1..(3 * n) |-> IF i % 3 = 0 THEN "/" ELSE "."]

\* the requests of SpecTraversal
TraversalUris ==
    { CriteriaRoot \o IdA,
      CriteriaRoot \o UpTo(1) \o <<"21", "/", "a">>,
      CriteriaRoot \o UpTo(3) \o <<"understanding", "/", "21", "/", "a">>,
      CriteriaRoot \o UpTo(4) \o <<"secret">>,
      UnderstandingRoot \o IdA,
      UnderstandingRoot \o UpTo(2) \o <<"guidelines", "/", "sc", "/", "20", "/", "a">>,
      UnderstandingRoot \o UpTo(3) \o <<"secret">>,
      TechniquesRoot \o <<"H", "4", "4">>,
      TechniquesRoot \o <<".", ".">>,
      TechniquesRoot \o <<"H", ".", ".">>,
      TechniquesRoot \o UpTo(1) \o <<"general", "/", "G", "1">> }

\* The files of SpecIndexer below guidelines/sc (directory, name, state,
\* content): criterion a under 2.0 and 2.2, a file b whose section has the id
\* a, a file x under 2.0 whose section has the id a as well, a file without a
\* section, a file in a directory that is no number, a directory named like
\* a file, a file name of two parts, a file that is not HTML and a criterion
\* with a conformance level
MaxCriterionFiles == 4

CriterionFiles ==
    { <<"20", <<"a", ".", "html">>, "file", ScDoc("20")>>,
      <<"22", <<"a", ".", "html">>, "file", ScDoc("22")>>,
      <<"21", <<"b", ".", "html">>, "file",
        <<"\n", IdOpen, "a", IncludeEnd, "<h4>", "Title of a", "</h4>", "</section>",
          "\n">> >>,
      <<"20", <<"x", ".", "html">>, "file",
        <<IdOpen, "a", IncludeEnd, "<p>", "another a", "</p>", "</section>">> >>,
      <<"21", <<"c", ".", "html">>, "file", <<"<p>", "no section", "</p>">> >>,
      <<"draft", <<"c", ".", "html">>, "file", ScDoc("draft")>>,
      <<"21", <<"a", ".", "html">>, "dir", <<>> >>,
      <<"20", <<"a", ".", "b", ".", "html">>, "file", ScDoc("20")>>,
      <<"22", <<"a", ".", "txt">>, "file", ScDoc("22")>>,
      <<"22", <<"b", ".", "html">>, "file",
        <<"<section.sc>", "<h4>", "Title of b", "</h4>", "<p.conformance-level>",
          "AA", "</p>", "</section>">> >> }

\* the corpora of SpecIndexer: at most MaxCriterionFiles of the files
IndexerCorpora ==
    {MakeFs(UNION {At(Root \o <<<<"guidelines">>, <<"sc">>, <<f[1]>>, f[2]>>,
                      f[3], f[4]) : f \in chosen}) :
        chosen \in {S \in SUBSET CriterionFiles : Cardinality(S) <= MaxCriterionFiles}}

\* The criterion references of SpecReferences: transclusion markers with a
\* versioned path, with a file name of several dots and with a bare file
\* name, and embedded sections with an id of one part and of two
MaxReferences == 2

ReferenceForms ==
    { <<IncludeOpen, "sc", "/", "20", "/", "a", ".", "html", IncludeEnd, "</section>">>,
      <<IncludeOpen, "sc", "/", "21", "/", "a", ".", "b", ".", "html", IncludeEnd,
        "</section>">>,
      <<IncludeOpen, "b", ".", "html", IncludeEnd, "</section>">>,
      <<IdOpen, "a", IncludeEnd, "<h4>", "Title of a", "</h4>", "</section>">>,
      <<IdOpen, "a", ".", "b", IncludeEnd, "<h4>", "Title of a.b", "</h4>",
        "</section>">> }

\* guidelines/index.html with one principle and one guideline that holds the
\* references
ReferenceSource(references) ==
    <<"<section.principle>", "<h2>", "Principle ", "1", "</h2>",
      "<section.guideline>", "<h3>", "Guideline ", "1", "</h3>">>
        \o Flatten(references) \o <<"</section>", "</section>">>

\* the corpora of SpecReferences: the outline corpus, to which the criterion
\* a.b is added, with each source of at most MaxReferences references
ReferenceCorpora ==
    {MakeFs({[path |-> p,
              entry |-> OutlineCorpus(ReferenceSource(references), "file", "valid")[p]] :
                 p \in DOMAIN OutlineCorpus(<<>>, "file", "valid")}
            \cup At(Root \o <<<<"guidelines">>, <<"sc">>, <<"21">>,
                               <<"a", ".", "b", ".", "html">>>>,
                    "file", ScDoc("21"))) :
        references \in UNION {[1..n -> ReferenceForms] : n \in 1..MaxReferences}}

\* the requests of SpecReferences
ReferenceUris ==
    {OutlineUri, CriteriaRoot \o IdA, CriteriaRoot \o <<"a", ".", "b">>,
     CriteriaRoot \o <<"b">>}

\* the requests of SpecOutline
OutlineUris == {OutlineUri, CriteriaRoot \o IdA, CriteriaRoot \o <<"c">>}

---------------------------------------------------------------------------
(* The state machine. *)

\* a client that has asked for nothing yet
NoPending ==
    [status |-> "idle", uri |-> NoRequest, called |-> "none",
     outcome |-> NoOutcome, done |-> invalidUri(NoRequest)]

Idle ==
    /\ request = NoRequest
    /\ called = "none"
    /\ ops = <<>>
    /\ lookup = NoLookup
    /\ response = Listing(<<>>)
    /\ turndownService = TurndownService
    /\ pending = [c \in Clients |-> NoPending]

Init ==
    /\ impl \in {"js", "ts"}
    /\ files \in Corpora
    /\ Idle

InitTechniques ==
    /\ impl \in {"js", "ts"}
    /\ files \in TechniqueCorpora
    /\ Idle

\* Only part_001 has the Structural Extractor
InitOutline ==
    /\ impl = "js"
    /\ files \in OutlineCorpora
    /\ Idle

InitReferences ==
    /\ impl = "js"
    /\ files \in ReferenceCorpora
    /\ Idle

InitIndexer ==
    /\ impl = "js"
    /\ files \in IndexerCorpora
    /\ Idle

InitTraversal ==
    /\ impl \in {"js", "ts"}
    /\ files \in TraversalCorpora
    /\ Idle

InitConcurrent ==
    /\ impl \in {"js", "ts"}
    /\ files \in ConcurrentCorpora
    /\ Idle

\* resources/read
ReadResource(uri) ==
    LET h == readResource(uri)
    IN  /\ request' = uri
        /\ called' = h.called
        /\ ops' = h.ops
        /\ lookup' = h.lookup
        /\ response' = h.response
        /\ turndownService' = h.service
        /\ files' = Effect(files, h.ops)
        /\ UNCHANGED <<impl, pending>>

\* The answer of a read handler becomes the last answer of the server
Answered(uri, h) ==
    /\ request' = uri
    /\ called' = h.called
    /\ ops' = h.ops
    /\ lookup' = h.lookup
    /\ response' = h.response
    /\ turndownService' = h.service

\* the markup a suspended handler of client c resumes with: its own
\* htmlContent
awaited_Shared(c) ==
    pending[CHOOSE d \in Clients :
                /\ pending[d].status = "awaiting"
                /\ \A e \in Clients : pending[e].status = "awaiting" => d <= e].outcome

awaited(c) == pending[c].outcome

\* resources/read of client c, up to the await of the handler.  A URI of no
\* known shape is answered in this step
Begin(c, uri) ==
    /\ pending[c].status # "awaiting"
    /\ LET d == dispatch(uri)
       IN  IF d.called = "none"
           THEN /\ pending' = [pending EXCEPT ![c] =
                                   [status |-> "done", uri |-> uri,
                                    called |-> "none", outcome |-> NoOutcome,
                                    done |-> invalidUri(uri)]]
                /\ files' = files
                /\ Answered(uri, invalidUri(uri))
           ELSE /\ pending' = [pending EXCEPT ![c] =
                                   [status |-> "awaiting", uri |-> uri,
                                    called |-> d.called, outcome |-> d.outcome,
                                    done |-> invalidUri(NoRequest)]]
                /\ files' = Effect(files, d.outcome.ops)
                /\ UNCHANGED <<request, called, ops, lookup, response,
                               turndownService>>
    /\ UNCHANGED impl

\* the rest of the read handler of client c, after its await
Finish(c) ==
    /\ pending[c].status = "awaiting"
    /\ LET h == resume(pending[c].uri, pending[c].called, awaited(c))
       IN  /\ pending' = [pending EXCEPT ![c].status = "done", ![c].done = h]
           /\ Answered(pending[c].uri, h)
           /\ files' = Effect(files, SubSeq(h.ops, Len(awaited(c).ops) + 1,
                                            Len(h.ops)))
    /\ UNCHANGED impl

\* resources/list
ListResources ==
    /\ request' = <<"resources/list">>
    /\ called' = "none"
    /\ ops' = <<>>
    /\ lookup' = NoLookup
    /\ response' = listResources
    /\ UNCHANGED <<impl, files, turndownService, pending>>

\* resources/templates/list
ListResourceTemplates ==
    /\ request' = <<"resources/templates/list">>
    /\ called' = "none"
    /\ ops' = <<>>
    /\ lookup' = NoLookup
    /\ response' = listResourceTemplates
    /\ UNCHANGED <<impl, files, turndownService, pending>>

Next ==
    \/ \E uri \in FixedUris : ReadResource(uri)
    \/ ListResources
    \/ ListResourceTemplates

NextTechniques ==
    \/ \E uri \in TechniqueUris : ReadResource(uri)
    \/ ListResources
    \/ ListResourceTemplates

NextOutline ==
    \/ \E uri \in OutlineUris : ReadResource(uri)
    \/ ListResources
    \/ ListResourceTemplates

\* the server over the version corpora
Spec == Init /\ [][Next]_vars

\* the server over the technique corpora, asked for every technique identifier
SpecTechniques == InitTechniques /\ [][NextTechniques]_vars

\* the server of part_001 over the outline sources
SpecOutline == InitOutline /\ [][NextOutline]_vars

\* main() of the generator: a run of the script beside the server.  A source
\* that cannot be read ends the run before anything is written
main ==
    /\ readFileSync(guidelinesIndexPath).ok
    /\ files' = Effect(files,
                       <<ReadOp(guidelinesIndexPath),
                         WriteOp(outputPath,
                                 extractGuidelinesContentOffline(
                                     readFileSync(guidelinesIndexPath).content))>>)
    /\ UNCHANGED <<impl, request, called, ops, lookup, response, turndownService,
                   pending>>

NextReferences ==
    \/ \E uri \in ReferenceUris : ReadResource(uri)
    \/ main
    \/ ListResources
    \/ ListResourceTemplates

\* the server of part_001 and the generator over sources with criterion
\* references of both forms
SpecReferences == InitReferences /\ [][NextReferences]_vars

\* extractCriteria() of the indexer: a run of the script beside the server.
\* glob returns the files in an order of its own; the records are sorted and
\* written with their count
extractCriteria ==
    \E order \in {o \in [1..Cardinality(globCriteria) -> globCriteria] :
                      \A i, j \in DOMAIN o : o[i] = o[j] => i = j} :
        LET criteria == sort(Flatten([i \in DOMAIN order |-> recordOf(order[i])]))
        IN  /\ files' = [p \in DOMAIN files \cup {criteriaPath} |->
                             IF p = criteriaPath
                             THEN [kind |-> "file", content |-> <<"{json}">>,
                                   json |-> [valid |-> TRUE, criteria |-> criteria,
                                             count |-> Len(criteria)]]
                             ELSE files[p]]
            /\ UNCHANGED <<impl, request, called, ops, lookup, response,
                           turndownService, pending>>

\* the indexer over the criterion files, and the server reading what it wrote
NextIndexer ==
    \/ extractCriteria
    \/ ReadResource(OutlineUri)

SpecIndexer == InitIndexer /\ [][NextIndexer]_vars

NextTraversal ==
    \/ \E uri \in TraversalUris : ReadResource(uri)
    \/ ListResources
    \/ ListResourceTemplates

\* the server asked for identifiers that hold "/" and ".." segments
SpecTraversal == InitTraversal /\ [][NextTraversal]_vars

NextConcurrent ==
    \/ \E c \in Clients, uri \in ConcurrentUris : Begin(c, uri)
    \/ \E c \in Clients : Finish(c)
    \/ ListResources
    \/ ListResourceTemplates

\* the server with the read requests of several clients in flight at once
SpecConcurrent == InitConcurrent /\ [][NextConcurrent]_vars

---------------------------------------------------------------------------
(* Vocabulary of the properties below. *)

\* the identifier a request carries after the root of its address
IdAfter(root) == SubSeq(request, Len(root) + 1, Len(request))

\* the last request was an address under `root` with a one-segment identifier
AsksFor(root) ==
    /\ StartsWith(request, root)
    /\ IdAfter(root) # <<>>
    /\ \A i \in 1..Len(IdAfter(root)) :
           IdAfter(root)[i] \notin LineTerminators \cup {"/"}

\* where the Document Store keeps the document (kind, version, id), for a
\* one-segment identifier
CriterionLocation(v, id) ==
    Root \o <<<<"guidelines">>, <<"sc">>, <<v>>, id \o DotHtml>>
UnderstandingLocation(v, id) ==
    Root \o <<<<"understanding">>, <<v>>, id \o DotHtml>>
TechniqueLocation(technology, id) ==
    Root \o <<<<"techniques">>, technology, id \o DotHtml>>

\* the Document Store holds a document at the location: a file that can be read
HasDocument(location) ==
    location \in DOMAIN files /\ files[location].kind = "file"

\* the response is a result whose one content item is made from the document
\* at the location
ServedFrom(location) ==
    /\ ~response.isError
    /\ Len(response.contents) = 1
    /\ response.contents[1].uri = request
    /\ response.contents[1].text = transform(files[location].content)

\* the reads of the last request that returned content
ContentReads == {k \in 1..Len(ops) : ops[k].op = "readFileSync" /\ ops[k].ok}

FailsWith(code, message) ==
    response.isError /\ response.code = code /\ response.message = message

\* C1 for one kind of document
OnlyVersionServed(root, Location(_, _)) ==
    \A i \in 1..Len(versions) :
        (/\ AsksFor(root)
         /\ HasDocument(Location(versions[i], IdAfter(root)))
         /\ \A j \in 1..Len(versions) :
                j # i => ~HasDocument(Location(versions[j], IdAfter(root))))
        => /\ ServedFrom(Location(versions[i], IdAfter(root)))
           /\ lookup.version = versions[i]

\* C1: a criterion request and an understanding request for an identifier
\* whose document exists under exactly one supported version v are answered
\* with the content of the (kind, v, id) document.
C1_OnlyVersionServed ==
    /\ OnlyVersionServed(CriteriaRoot, CriterionLocation)
    /\ OnlyVersionServed(UnderstandingRoot, UnderstandingLocation)

C1_Witness ==
    /\ request = UnderstandingRoot \o IdA
    /\ HasDocument(UnderstandingLocation("21", IdA))
    /\ ~HasDocument(UnderstandingLocation("20", IdA))
    /\ ~HasDocument(UnderstandingLocation("22", IdA))
    /\ ServedFrom(UnderstandingLocation("21", IdA))

\* C2 for one kind of document
FirstVersionWins(root, Location(_, _)) ==
    \A i, j \in 1..Len(versions) :
        (/\ AsksFor(root)
         /\ i < j
         /\ HasDocument(Location(versions[i], IdAfter(root)))
         /\ HasDocument(Location(versions[j], IdAfter(root)))
         /\ \A h \in 1..(i - 1) : ~HasDocument(Location(versions[h], IdAfter(root))))
        => /\ ServedFrom(Location(versions[i], IdAfter(root)))
           /\ lookup.version = versions[i]
           /\ \A k \in 1..Len(ops) :
                  ops[k].path # Location(versions[j], IdAfter(root))

\* C2: when the document of an identifier exists under two supported versions
\* v1 < v2, v1 being the first version that has it, every criterion or
\* understanding request for it is answered with v1's document, and v2's file
\* is neither probed nor read.
C2_FirstVersionWins ==
    /\ FirstVersionWins(CriteriaRoot, CriterionLocation)
    /\ FirstVersionWins(UnderstandingRoot, UnderstandingLocation)

C2_Witness ==
    /\ request = CriteriaRoot \o IdA
    /\ HasDocument(CriterionLocation("20", IdA))
    /\ ~HasDocument(CriterionLocation("21", IdA))
    /\ HasDocument(CriterionLocation("22", IdA))
    /\ ServedFrom(CriterionLocation("20", IdA))
    /\ response.contents[1].text # transform(files[CriterionLocation("22", IdA)].content)

\* C3 for one kind of document
MissingIsNotFound(root, Location(_, _), notFound) ==
    (/\ AsksFor(root)
     /\ \A i \in 1..Len(versions) : ~HasDocument(Location(versions[i], IdAfter(root))))
    => FailsWith("InvalidRequest", <<notFound>> \o IdAfter(root))

\* C3: a criterion or understanding request whose identifier has a document
\* under none of the supported versions fails with the not-found error: an
\* McpError of code InvalidRequest whose message is "Criterion not found: " or
\* "Understanding document not found: " and the identifier.
C3_MissingIsNotFound ==
    /\ MissingIsNotFound(CriteriaRoot, CriterionLocation, "Criterion not found: ")
    /\ MissingIsNotFound(UnderstandingRoot, UnderstandingLocation,
                         "Understanding document not found: ")

C3_Witness ==
    /\ request = CriteriaRoot \o <<"b">>
    /\ FailsWith("InvalidRequest", <<"Criterion not found: ", "b">>)
    /\ Len(ops) = 3

---------------------------------------------------------------------------
(* Technique identifiers. *)

\* the keys of the prefix table that are longer than one letter
MultiLetterKeys == {k \in PrefixKeys : Len(k) > 1}

\* the prefix the cascade derives from an identifier led by an uppercase
\* letter: the multi-letter key it starts with, else its first letter
DerivedPrefix(id) ==
    IF \E m \in MultiLetterKeys : StartsWith(id, m)
    THEN CHOOSE m \in MultiLetterKeys : StartsWith(id, m)
    ELSE <<id[1]>>

InvalidIdentifier(id) ==
    FailsWith("InvalidRequest", <<"Invalid technique ID format: ">> \o id)
UnknownPrefix(prefix) ==
    FailsWith("InvalidRequest", <<"Unknown technique prefix: ">> \o prefix)
TechniqueNotFound(id) ==
    FailsWith("InvalidRequest", <<"Technique not found: ">> \o id)

\* C4: a technique identifier that begins with one of the multi-letter
\* prefixes is resolved under that prefix's technology and never under its
\* first letter's: the directory probed is the multi-letter prefix's, the
\* document there is the one served, and SCR21 resolves under
\* client-side-script.
C4_MultiLetterPrefixWins ==
    /\ \A m \in MultiLetterKeys :
           (AsksFor(TechniquesRoot) /\ StartsWith(IdAfter(TechniquesRoot), m))
           => /\ lookup.prefix = m
              /\ lookup.technology = TECHNIQUE_PREFIX_MAP(m)
              /\ lookup.technology # TECHNIQUE_PREFIX_MAP(<<m[1]>>)
              /\ ops # <<>>
              /\ \A k \in 1..Len(ops) :
                     ops[k].path = TechniqueLocation(TECHNIQUE_PREFIX_MAP(m),
                                                     IdAfter(TechniquesRoot))
              /\ ~UnknownPrefix(<<m[1]>>)
              /\ HasDocument(TechniqueLocation(TECHNIQUE_PREFIX_MAP(m),
                                               IdAfter(TechniquesRoot)))
                 => ServedFrom(TechniqueLocation(TECHNIQUE_PREFIX_MAP(m),
                                                 IdAfter(TechniquesRoot)))
    /\ request = TechniquesRoot \o <<"S", "C", "R", "2", "1">>
       => lookup.technology = <<"client-side-script">>

C4_Witness ==
    /\ request = TechniquesRoot \o <<"S", "C", "R", "2", "1">>
    /\ lookup.prefix = <<"S", "C", "R">>
    /\ lookup.technology = <<"client-side-script">>
    /\ ServedFrom(TechniqueLocation(<<"client-side-script">>,
                                    <<"S", "C", "R", "2", "1">>))

\* C5 as stated: every identifier whose first character is an uppercase
\* letter that is no key of the prefix table fails with UnknownPrefix
C5_UppercaseNotInTable ==
    (/\ AsksFor(TechniquesRoot)
     /\ IdAfter(TechniquesRoot)[1] \in UpperCase
     /\ <<IdAfter(TechniquesRoot)[1]>> \notin PrefixKeys)
    => /\ UnknownPrefix(<<IdAfter(TechniquesRoot)[1]>>)
       /\ ~TechniqueNotFound(IdAfter(TechniquesRoot))

\* C5: a technique identifier whose first character is an uppercase letter
\* that is no key of the prefix table, and that begins with none of the
\* multi-letter prefixes, fails with UnknownPrefix naming that letter, never
\* with NotFound, and without any Document Store operation.
C5_UnknownPrefix ==
    (/\ AsksFor(TechniquesRoot)
     /\ IdAfter(TechniquesRoot)[1] \in UpperCase
     /\ <<IdAfter(TechniquesRoot)[1]>> \notin PrefixKeys
     /\ \A m \in MultiLetterKeys : ~StartsWith(IdAfter(TechniquesRoot), m))
    => /\ UnknownPrefix(<<IdAfter(TechniquesRoot)[1]>>)
       /\ ~TechniqueNotFound(IdAfter(TechniquesRoot))
       /\ ops = <<>>

C5_Witness ==
    /\ request = TechniquesRoot \o <<"S", "9", "9">>
    /\ called = "findTechnique"
    /\ UnknownPrefix(<<"S">>)
    /\ ops = <<>>

\* C6: technique resolution fails in three ways, tested in this order: an
\* identifier not led by an uppercase letter is an InvalidIdentifier; a
\* well-formed one whose prefix is not in the table is an UnknownPrefix; one
\* whose prefix is known but whose file is missing is NotFound.  The first
\* two are raised before any Document Store operation, the third after the
\* one existence check.
C6_TechniqueFailureOrder ==
    AsksFor(TechniquesRoot) =>
        LET id == IdAfter(TechniquesRoot)
            p  == DerivedPrefix(id)
        IN  /\ called = "findTechnique"
            /\ id[1] \notin UpperCase
               => InvalidIdentifier(id) /\ ops = <<>>
            /\ (id[1] \in UpperCase /\ p \notin PrefixKeys)
               => UnknownPrefix(p) /\ ops = <<>>
            /\ (/\ id[1] \in UpperCase
                /\ p \in PrefixKeys
                /\ TechniqueLocation(TECHNIQUE_PREFIX_MAP(p), id) \notin DOMAIN files)
               => /\ TechniqueNotFound(id)
                  /\ ops = <<ExistsOp(TechniqueLocation(TECHNIQUE_PREFIX_MAP(p), id))>>
            /\ (InvalidIdentifier(id) \/ UnknownPrefix(p)) => ops = <<>>

C6_Witness ==
    /\ request = TechniquesRoot \o <<"H", "1">>
    /\ TechniqueLocation(<<"html">>, <<"H", "1">>) \notin DOMAIN files
    /\ TechniqueNotFound(<<"H", "1">>)
    /\ Len(ops) = 1
    /\ ops[1].op = "existsSync"

---------------------------------------------------------------------------
(* The read handler. *)

\* the last request was a resources/read
IsRead ==
    request \notin {NoRequest, <<"resources/list">>, <<"resources/templates/list">>}

\* the last request went to one of the three resolvers of documents
ResolverRequest ==
    called \in {"findCriterion", "findUnderstanding", "findTechnique"}

\* C7: while a criterion, understanding or technique request is resolved,
\* every Document Store operation before the location is found is an
\* existence check; a successful request reads content exactly once, as its
\* last operation, from the location whose existence check just returned
\* true; a failed request reads no content.
C7_ReadOnceAfterFound ==
    ResolverRequest =>
        /\ \A k \in 1..(Len(ops) - 1) : ops[k].op = "existsSync"
        /\ \A k \in 1..Len(ops) :
               ops[k].op = "readFileSync"
               => /\ k > 1
                  /\ ops[k - 1] = [op |-> "existsSync", path |-> ops[k].path,
                                   ok |-> TRUE]
        /\ ~response.isError
           => /\ Cardinality(ContentReads) = 1
              /\ ContentReads = {Len(ops)}
        /\ response.isError => ContentReads = {}

\* C8: the address shapes, written as the patterns of the handler read
HasShape(root, excluded) ==
    /\ StartsWith(request, root)
    /\ IdAfter(root) # <<>>
    /\ \A i \in 1..Len(IdAfter(root)) : IdAfter(root)[i] \notin excluded

KnownShape ==
    \/ request = OutlineUri
    \/ HasShape(CriteriaRoot, LineTerminators)
    \/ HasShape(UnderstandingRoot, LineTerminators)
    \/ HasShape(TechniquesRoot, {"/"})

\* C8: a read request whose URI has none of the four address shapes fails
\* with InvalidRequest naming the URI, and no resolver was called and no
\* Document Store operation was performed for it.
C8_UnknownShapeRejected ==
    (IsRead /\ ~KnownShape)
    => /\ FailsWith("InvalidRequest", <<"Invalid URI: ">> \o request)
       /\ called = "none"
       /\ ops = <<>>
       /\ lookup = NoLookup

C8_Witness ==
    /\ request = TechniquesRoot \o <<"html", "/", "H", "4", "4">>
    /\ FailsWith("InvalidRequest", <<"Invalid URI: ">> \o request)
    /\ called = "none"
    /\ ops = <<>>

\* C9: a read of wcag://criteria/{version}/{id} or
\* wcag://understanding/{version}/{id} whose document exists under that
\* version, and a read of wcag://techniques/{technology}/{id} whose technique
\* exists under that technology, are answered with a non-empty contents list
\* and not with an error.
C9_DocumentedAddressesServed ==
    /\ \A i \in 1..Len(versions) :
           /\ (/\ request = CriteriaRoot \o <<versions[i], "/">> \o IdA
               /\ HasDocument(CriterionLocation(versions[i], IdA)))
              => ~response.isError /\ response.contents # <<>>
           /\ (/\ request = UnderstandingRoot \o <<versions[i], "/">> \o IdA
               /\ HasDocument(UnderstandingLocation(versions[i], IdA)))
              => ~response.isError /\ response.contents # <<>>
    /\ (/\ request = TechniquesRoot \o <<"html", "/", "H", "4", "4">>
        /\ HasDocument(TechniqueLocation(<<"html">>, <<"H", "4", "4">>)))
       => ~response.isError /\ response.contents # <<>>

\* C10: every successful read response advertises the markdown media type,
\* and its text is not the raw markup that was read from the Document Store.
C10_MarkdownNeverRaw ==
    (IsRead /\ ~response.isError)
    => \A i \in 1..Len(response.contents) :
           /\ response.contents[i].mimeType = "text/markdown"
           /\ \A k \in ContentReads :
                  response.contents[i].text # files[ops[k].path].content

---------------------------------------------------------------------------
(* The outline. *)

\* the last request was a read of the outline that was answered with a text
OutlineServed ==
    /\ request = OutlineUri
    /\ ~response.isError
    /\ Len(response.contents) = 1

OutlineText == response.contents[1].text

\* guidelines/index.html as it lies in the corpus
OutlineMarkup == files[Root \o <<<<"guidelines">>, <<"index", ".", "html">>>>].content

\* the text is the diagnostic of the extractor's catch
IsDiagnostic(text) ==
    text # <<>> /\ text[1] = "# Error Processing WCAG Guidelines"

\* where a symbol occurs in a sequence, and a set of indices in ascending order
Where(s, sym) == {i \in 1..Len(s) : s[i] = sym}
InOrder(S) ==
    [k \in 1..Cardinality(S) |->
         CHOOSE i \in S : Cardinality({j \in S : j < i}) = k - 1]
Latest(S, i) ==
    IF {j \in S : j < i} = {} THEN 0
    ELSE CHOOSE m \in {j \in S : j < i} : \A j \in S : j < i => j <= m

\* The positions of the criterion references of a source, counted on its
\* markup: the principles opened up to the reference, the guidelines opened
\* since that principle, the references since that guideline
Positions(markup) ==
    LET principles == Where(markup, "<section.principle>")
        guidelines == Where(markup, "<section.guideline>")
        references == Where(markup, IncludeOpen)
        p(i) == Cardinality({j \in principles : j < i})
        g(i) == Cardinality({j \in guidelines : Latest(principles, i) < j /\ j < i})
        c(i) == Cardinality({j \in references :
                                 /\ Latest(principles \cup guidelines, i) < j
                                 /\ j <= i})
    IN  [k \in 1..Cardinality(references) |->
             <<ToString(p(InOrder(references)[k])),
               ToString(g(InOrder(references)[k])),
               ToString(c(InOrder(references)[k]))>>]

\* the numbers on the criterion lines of a text, in order
LineNumbers(text) ==
    LET starts == {i \in Where(text, "- [") : i + 5 <= Len(text)}
    IN  [k \in 1..Cardinality(starts) |->
             <<text[InOrder(starts)[k] + 1], text[InOrder(starts)[k] + 3],
               text[InOrder(starts)[k] + 5]>>]

\* C11: the criterion lines of the outline carry p.g.c, the 1-based positions
\* of the principle in the document, of the guideline in the principle and of
\* the reference in the guideline; the criterion number starts at 1 in each
\* guideline and goes up by one from line to line, whether or not the lines
\* have titles.
C11_PositionalNumbering ==
    (OutlineServed /\ ~IsDiagnostic(OutlineText))
    => LET lines == LineNumbers(OutlineText)
       IN  /\ lines = Positions(OutlineMarkup)
           /\ \A k \in 1..Len(lines) :
                  \/ lines[k][3] = "1"
                  \/ /\ k > 1
                     /\ lines[k][1] = lines[k - 1][1]
                     /\ lines[k][2] = lines[k - 1][2]
                     /\ \E c \in 1..Len(lines) :
                            /\ lines[k - 1][3] = ToString(c)
                            /\ lines[k][3] = ToString(c + 1)

C11_Witness ==
    /\ OutlineServed
    /\ LineNumbers(OutlineText)
           = << <<"1", "1", "1">>, <<"1", "1", "2">>, <<"1", "2", "1">>,
                <<"1", "2", "2">>, <<"2", "1", "1">>, <<"2", "1", "2">> >>
    /\ \E i \in 1..(Len(OutlineText) - 7) :
           /\ OutlineText[i] = "- ["
           /\ OutlineText[i + 6] = " "
           /\ OutlineText[i + 7] = "]("

\* how many times a symbol occurs in a sequence
Count(s, sym) == Cardinality({i \in 1..Len(s) : s[i] = sym})

\* the scenario of C12: two principles, the first with one guideline that
\* holds two criterion references, the second with no guideline
IsTwoPrincipleScenario(markup) ==
    /\ Count(markup, "<section.principle>") = 2
    /\ Count(markup, "<section.guideline>") = 1
    /\ Positions(markup) = << <<"1", "1", "1">>, <<"1", "1", "2">> >>

\* C12: for an outline source with two principles, the first holding one
\* guideline with two criteria and the second no guideline, the outline has
\* exactly two principle blocks, the first with one guideline block and the
\* lines 1.1.1 and 1.1.2, the second with no guideline or criterion line.
C12_TwoPrincipleScenario ==
    (/\ request = OutlineUri
     /\ HasDocument(Root \o <<<<"guidelines">>, <<"index", ".", "html">>>>)
     /\ IsTwoPrincipleScenario(OutlineMarkup))
    => /\ OutlineServed
       /\ Count(OutlineText, "## ") = 2
       /\ Count(OutlineText, "### ") = 1
       /\ LineNumbers(OutlineText) = << <<"1", "1", "1">>, <<"1", "1", "2">> >>
       /\ \A i, j \in 1..Len(OutlineText) :
              (OutlineText[i] = "## " /\ OutlineText[j] \in {"### ", "- ["} /\ i < j)
              => \E k \in (i + 1)..Len(OutlineText) : OutlineText[k] = "## "

\* the identifiers of the criterion references of a source (the sources of
\* the model write sc/20/<id>.html with a one-symbol identifier)
ReferencedIds(markup) ==
    {markup[i + 5] : i \in {j \in Where(markup, IncludeOpen) : j + 5 <= Len(markup)}}

\* the CriteriaIndex was loaded, and the records it holds
IndexLoaded ==
    /\ HasDocument(<<<<"wcag-criteria", ".", "json">>>>)
    /\ files[<<<<"wcag-criteria", ".", "json">>>>].json.valid
IndexRecords == files[<<<<"wcag-criteria", ".", "json">>>>].json.criteria
HasRecord(id) == \E k \in 1..Len(IndexRecords) : IndexRecords[k].id = <<id>>

\* the text has a criterion line with no title that links to the identifier
HasUntitledLine(text, id) ==
    \E i \in 1..(Len(text) - 14) :
        /\ text[i] = "- ["
        /\ text[i + 6] = " "
        /\ SubSeq(text, i + 7, i + 14)
               = <<"](", "wcag:", "/", "/", "criteria", "/", id, ")">>

\* the outline has a block for every principle and guideline of the source
\* and a line for every criterion reference
IsFullOutline(text, markup) ==
    /\ ~IsDiagnostic(text)
    /\ Count(text, "## ") = Count(markup, "<section.principle>")
    /\ Count(text, "### ") = Count(markup, "<section.guideline>")
    /\ LineNumbers(text) = Positions(markup)

\* C13: when the outline source refers to a criterion that has no record in
\* the CriteriaIndex, the outline request is answered with the normal
\* outline: every principle, guideline and criterion is emitted, and the
\* criterion without a record has a numbered, linked line with an empty title.
C13_MissingRecordEmptyTitle ==
    (/\ request = OutlineUri
     /\ HasDocument(Root \o <<<<"guidelines">>, <<"index", ".", "html">>>>)
     /\ IndexLoaded)
    => \A id \in ReferencedIds(OutlineMarkup) :
           ~HasRecord(id)
           => /\ OutlineServed
              /\ IsFullOutline(OutlineText, OutlineMarkup)
              /\ HasUntitledLine(OutlineText, id)

\* C14: when the CriteriaIndex side-file is missing, unreadable or not JSON,
\* the outline request is answered with the full hierarchy of principles,
\* guidelines and criteria, each criterion line numbered and linked by its
\* identifier.
C14_MissingIndexNotFatal ==
    (/\ request = OutlineUri
     /\ HasDocument(Root \o <<<<"guidelines">>, <<"index", ".", "html">>>>)
     /\ ~IndexLoaded)
    => /\ OutlineServed
       /\ IsFullOutline(OutlineText, OutlineMarkup)
       /\ \A id \in ReferencedIds(OutlineMarkup) :
              HasUntitledLine(OutlineText, id)

\* the first record of the index for the identifier yields a section of
\* class sc, which is what the extractor needs to write the criterion's line
Resolvable(id) ==
    /\ IndexLoaded
    /\ HasRecord(id)
    /\ LET k == CHOOSE k \in 1..Len(IndexRecords) :
                    /\ IndexRecords[k].id = <<id>>
                    /\ \A h \in 1..(k - 1) : IndexRecords[h].id # <<id>>
       IN  Count(IndexRecords[k].content, "<section.sc>") > 0

\* the extractor fails on the source: it meets a reference it cannot resolve
ExtractionFails(markup) ==
    \E id \in ReferencedIds(markup) : ~Resolvable(id)

\* the line breaks inside a text, its last symbol apart
InnerBreaks(text) ==
    {i \in 1..(Len(text) - 1) : text[i] \in {"\n", "\n\n"}}

\* C15 as stated: the extractor always returns text, the facade returns it
\* as a successful response, and the text of a failure is one line
C15_OneLineDiagnostic ==
    (/\ request = OutlineUri
     /\ HasDocument(Root \o <<<<"guidelines">>, <<"index", ".", "html">>>>))
    => /\ OutlineServed
       /\ ExtractionFails(OutlineMarkup)
          => IsDiagnostic(OutlineText) /\ InnerBreaks(OutlineText) = {}

\* C15: the Structural Extractor never throws: for every outline source that
\* was read, parsable or not, the outline request is answered with a
\* successful markdown response; when extraction fails the text is the
\* diagnostic, a heading followed by a blank line and one line with the
\* error; otherwise it is the full outline.
C15_ExtractorNeverThrows ==
    (/\ request = OutlineUri
     /\ HasDocument(Root \o <<<<"guidelines">>, <<"index", ".", "html">>>>))
    => /\ OutlineServed
       /\ response.contents[1].mimeType = "text/markdown"
       /\ called = "readPrinciplesAndGuidelines"
       /\ IF ExtractionFails(OutlineMarkup)
          THEN /\ Len(OutlineText) = 5
               /\ SubSeq(OutlineText, 1, 3)
                      = <<"# Error Processing WCAG Guidelines", "\n\n",
                          "An error occurred while processing the WCAG guidelines: ">>
               /\ OutlineText[5] = "\n"
               /\ InnerBreaks(OutlineText) = {2}
          ELSE IsFullOutline(OutlineText, OutlineMarkup)

C15_Witness ==
    /\ OutlineServed
    /\ ExtractionFails(OutlineMarkup)
    /\ Count(OutlineMarkup, "<section.principle>") = 2
    /\ IsDiagnostic(OutlineText)
    /\ Len(OutlineText) = 5

---------------------------------------------------------------------------
(* Failures. *)

\* the identifier the last request asked a resolver for
RequestedId ==
    IF StartsWith(request, CriteriaRoot) THEN IdAfter(CriteriaRoot)
    ELSE IF StartsWith(request, UnderstandingRoot) THEN IdAfter(UnderstandingRoot)
    ELSE IdAfter(TechniquesRoot)

\* the sequence holds the other as a run of consecutive symbols
Includes(s, part) ==
    \E i \in 0..(Len(s) - Len(part)) : SubSeq(s, i + 1, i + Len(part)) = part

TaxonomyKinds == {"InvalidRequest", "NotFound", "UnknownPrefix", "InternalError"}

\* C16: every failure of a criterion, understanding or technique request
\* reaches the caller as an error of a taxonomy kind whose message includes
\* the requested identifier, and a request for which no document was read is
\* never answered with a successful response.
C16_FailuresNameIdentifier ==
    ResolverRequest =>
        /\ response.isError
           => /\ response.code \in TaxonomyKinds
              /\ Includes(response.message, RequestedId)
        /\ ContentReads = {} => response.isError

\* the reads of the last request that threw
FailedReads == {k \in 1..Len(ops) : ops[k].op = "readFileSync" /\ ~ops[k].ok}

\* C17 for one kind of document
FailsFast(root, Location(_, _)) ==
    AsksFor(root) =>
        /\ \A k \in FailedReads :
               /\ k = Len(ops)
               /\ response.isError
               /\ Includes(response.message, readFileSync(ops[k].path).error)
        /\ \A i, j \in 1..Len(versions) :
               (i < j /\ existsSync(Location(versions[i], IdAfter(root))))
               => ~(/\ HasDocument(Location(versions[j], IdAfter(root)))
                    /\ ServedFrom(Location(versions[j], IdAfter(root)))
                    /\ lookup.version = versions[j])

\* C17: when a read against the Document Store fails for some version during
\* a criterion or understanding lookup, the request fails at once with that
\* failure: the failed read is the last store operation, no later version is
\* probed, and the content of a later version is never returned in place of
\* an earlier version's existing entry.
C17_FailFast ==
    /\ FailsFast(CriteriaRoot, CriterionLocation)
    /\ FailsFast(UnderstandingRoot, UnderstandingLocation)

\* the store operations of the last request, by kind
ExistenceChecks == {k \in 1..Len(ops) : ops[k].op = "existsSync"}
Reads == {k \in 1..Len(ops) : ops[k].op = "readFileSync"}

\* C19 as stated: at most 3 existence checks and 1 read for a criterion or
\* understanding request, at most 1 and 1 for a technique request, and no
\* request with more store operations than there are supported versions
C19_AtMostVersionsOperations ==
    IsRead =>
        /\ called \in {"findCriterion", "findUnderstanding"}
           => Cardinality(ExistenceChecks) <= 3 /\ Cardinality(Reads) <= 1
        /\ called = "findTechnique"
           => Cardinality(ExistenceChecks) <= 1 /\ Cardinality(Reads) <= 1
        /\ Len(ops) <= Len(versions)

\* C19: the store operations of a request are bounded: a criterion or
\* understanding request makes at most one existence check per supported
\* version, at most one read after each check that returned true and at most
\* one read that returns content; a technique request makes at most one
\* existence check and one read; no request makes more than twice as many
\* store operations as there are supported versions, and at most one more
\* than that number when no read fails.
C19_BoundedOperations ==
    IsRead =>
        /\ called \in {"findCriterion", "findUnderstanding"}
           => /\ Cardinality(ExistenceChecks) <= Len(versions)
              /\ \A k, h \in ExistenceChecks : k # h => ops[k].path # ops[h].path
              /\ Cardinality(Reads) <= Cardinality({k \in ExistenceChecks : ops[k].ok})
              /\ Cardinality(ContentReads) <= 1
        /\ called = "findTechnique"
           => Cardinality(ExistenceChecks) <= 1 /\ Cardinality(Reads) <= 1
        /\ Len(ops) <= 2 * Len(versions)
        /\ FailedReads = {} => Len(ops) <= Len(versions) + 1

C19_Witness ==
    /\ request = CriteriaRoot \o IdA
    /\ ~response.isError
    /\ Cardinality(ExistenceChecks) = 3
    /\ Cardinality(ContentReads) = 1
    /\ Len(ops) = 4

---------------------------------------------------------------------------
(* Requests in flight at the same time. *)

\* client c has been answered
Done(c) == pending[c].status = "done"

\* client c waits for its resolver
Awaiting(c) == pending[c].status = "awaiting"

\* what a request for the URI gives when no other request is in flight
ServedAlone(uri) ==
    [called |-> readResource(uri).called, ops |-> readResource(uri).ops,
     lookup |-> readResource(uri).lookup, response |-> readResource(uri).response]

\* what the request of client c gave
Given(c) ==
    [called |-> pending[c].done.called, ops |-> pending[c].done.ops,
     lookup |-> pending[c].done.lookup, response |-> pending[c].done.response]

\* a step of the server touches the request of at most one client
OneClientAtATime ==
    \A c, d \in Clients :
        (c # d /\ pending'[c] # pending[c]) => pending'[d] = pending[d]

\* C18: over an unchanging corpus, the outcome of every request, whatever
\* requests are in flight with it and in whatever order they are answered, is
\* the outcome the request has when served alone; a suspended request holds
\* the markup of its own resolver, and no step of one request changes what
\* another request holds, the corpus or the converter
C18_IndependentRequests ==
    /\ [](\A c \in Clients :
              /\ Done(c) => Given(c) = ServedAlone(pending[c].uri)
              /\ Awaiting(c) =>
                     /\ pending[c].called = dispatch(pending[c].uri).called
                     /\ pending[c].outcome = dispatch(pending[c].uri).outcome)
    /\ [][/\ OneClientAtATime
          /\ files' = files
          /\ turndownService' = turndownService]_vars

\* client 2 was given the criterion it asked for while the request of
\* client 1 for another document is in flight
C18_Witness ==
    /\ Awaiting(1) /\ Done(2)
    /\ pending[1].uri = UnderstandingRoot \o IdA
    /\ pending[2].uri = CriteriaRoot \o IdA
    /\ ~pending[1].outcome.result.threw
    /\ ~pending[2].done.response.isError
    /\ request = pending[2].uri

---------------------------------------------------------------------------
(* The shared converter. *)

\* the request of client c was answered with the conversion of a document
Converted(c) ==
    /\ Done(c)
    /\ impl = "js"
    /\ pending[c].called \in {"findCriterion", "findUnderstanding", "findTechnique"}
    /\ ~pending[c].done.response.isError

---------------------------------------------------------------------------
(* The prefix cascade against the prefix table. *)

\* the keys of the prefix table that the identifier starts with
KeysLeading(id) == {k \in PrefixKeys : StartsWith(id, k)}

LongestKeyLeading(id) ==
    CHOOSE k \in KeysLeading(id) : \A j \in KeysLeading(id) : Len(j) <= Len(k)

\* the multi-letter tests of the cascade in the order of the source, and the
\* first of a list of tests that the identifier passes (<<>> when none)
CascadeOrder ==
    << <<"A", "R", "I", "A">>, <<"F", "L", "A", "S", "H">>, <<"P", "D", "F">>,
       <<"S", "C", "R">>, <<"S", "L">>, <<"S", "M">>, <<"S", "V", "R">> >>

Reversed(s) == [i \in 1..Len(s) |-> s[Len(s) + 1 - i]]

FirstPassed(tests, id) ==
    IF \E i \in 1..Len(tests) : StartsWith(id, tests[i])
    THEN tests[CHOOSE i \in 1..Len(tests) :
                   /\ StartsWith(id, tests[i])
                   /\ \A j \in 1..(i - 1) : ~StartsWith(id, tests[j])]
    ELSE <<>>

\* C27: for a technique identifier led by an uppercase letter the prefix of
\* the cascade is the longest key of the table the identifier starts with,
\* when there is one; the request fails with UnknownPrefix exactly when the
\* identifier starts with no key; and the multi-letter tests give the same
\* prefix in the order of the source and in the opposite order, since the
\* identifier passes at most one of them.
C27_LongestKeyWins ==
    (AsksFor(TechniquesRoot) /\ IdAfter(TechniquesRoot)[1] \in UpperCase) =>
        LET id == IdAfter(TechniquesRoot)
        IN  /\ called = "findTechnique"
            /\ KeysLeading(id) # {}
               => /\ lookup.prefix = LongestKeyLeading(id)
                  /\ lookup.technology = TECHNIQUE_PREFIX_MAP(LongestKeyLeading(id))
            /\ (KeysLeading(id) = {}) <=> UnknownPrefix(lookup.prefix)
            /\ KeysLeading(id) = {} => lookup.prefix = <<id[1]>>
            /\ {CascadeOrder[i] : i \in 1..Len(CascadeOrder)} = MultiLetterKeys
            /\ FirstPassed(CascadeOrder, id) = FirstPassed(Reversed(CascadeOrder), id)
            /\ FirstPassed(CascadeOrder, id) # <<>>
               => lookup.prefix = FirstPassed(CascadeOrder, id)
            /\ Cardinality({m \in MultiLetterKeys : StartsWith(id, m)}) <= 1

\* FLASH1 starts with the keys F and FLASH and is resolved under FLASH; SC1
\* starts with no key
C27_Witness ==
    /\ request = TechniquesRoot \o <<"F", "L", "A", "S", "H", "1">>
    /\ KeysLeading(IdAfter(TechniquesRoot)) = {<<"F">>, <<"F", "L", "A", "S", "H">>}
    /\ lookup.prefix = <<"F", "L", "A", "S", "H">>
    /\ lookup.technology = <<"flash">>
    /\ ~response.isError

---------------------------------------------------------------------------
(* Errors raised while a request is served. *)

\* the file-system calls of the last request that threw
RaisedReads == {k \in 1..Len(ops) : ops[k].op = "readFileSync" /\ ~ops[k].ok}

\* C30: an error raised while a read request is served leaves the handler as
\* a protocol error: the McpError of a resolver keeps its kind and message, a
\* failure that is no McpError is reported as an InternalError, and a request
\* in which a file read threw is not answered with a success but with an
\* InternalError.
C30_ErrorsLeaveAsProtocolErrors ==
    IsRead =>
        /\ called # "none" =>
               LET thrown == dispatch(request).outcome.result
               IN  /\ (thrown.threw /\ thrown.code # "Error")
                      => FailsWith(thrown.code, thrown.message)
                   /\ (thrown.threw /\ thrown.code = "Error")
                      => response.isError /\ response.code = "InternalError"
        /\ RaisedReads # {} => response.isError /\ response.code = "InternalError"

---------------------------------------------------------------------------
(* What request handling leaves alone. *)

\* C25: the calls a read or list request makes on the Document Store and on
\* the criteria side-file are existence checks and reads only, and no request
\* changes a file of the corpus or the side-file: the file system after a
\* request is the file system before it.  (The prefix table and the loaded
\* index are constants local to one call and hold no state.)
C25_RequestsReadOnly ==
    /\ [](\A k \in 1..Len(ops) : ops[k].op \in {"existsSync", "readFileSync"})
    /\ [][files' = files]_vars

\* the outline was served by part_001, which read the source and the criteria
\* side-file, and both are still there
C25_Witness ==
    /\ impl = "js"
    /\ request = OutlineUri
    /\ ~response.isError
    /\ ops = <<ReadOp(guidelinesIndexPath), ReadOp(criteriaPath)>>
    /\ readFileSync(criteriaPath).ok
    /\ files[criteriaPath].json.valid

---------------------------------------------------------------------------
(* Where a request looks. *)

\* the location is a file directly in the directory
DirectlyIn(location, directory) ==
    /\ Len(location) = Len(directory) + 1
    /\ SubSeq(location, 1, Len(directory)) = directory

\* the directories of the Document Store that hold the documents of a kind
CriterionDirectories ==
    {Root \o <<<<"guidelines">>, <<"sc">>, <<versions[i]>>>> : i \in 1..Len(versions)}
UnderstandingDirectories ==
    {Root \o <<<<"understanding">>, <<versions[i]>>>> : i \in 1..Len(versions)}
TechniqueDirectories ==
    {Root \o <<<<"techniques">>, TECHNIQUE_PREFIX_MAP(k)>> : k \in PrefixKeys}

\* the directories a request of the resolver may look in
DirectoriesOf(resolver) ==
    CASE resolver = "findCriterion"     -> CriterionDirectories
      [] resolver = "findUnderstanding" -> UnderstandingDirectories
      [] resolver = "findTechnique"     -> TechniqueDirectories
      [] OTHER                          -> {}

\* C28: every location a criterion, understanding or technique request
\* checks or reads is a file directly in a directory of the requested kind
\* (for a technique, the directory of the mapped technology), whatever the
\* identifier holds, "/" and ".." segments included.
C28_StaysInsideKindDirectory ==
    ResolverRequest =>
        \A k \in 1..Len(ops) :
            /\ \E directory \in DirectoriesOf(called) :
                   DirectlyIn(ops[k].path, directory)
            /\ called = "findTechnique"
               => DirectlyIn(ops[k].path, Root \o <<<<"techniques">>, lookup.technology>>)

---------------------------------------------------------------------------
(* The title of a criterion line. *)

\* the title the first record of the loaded index holds for the identifier
RecordedTitle(id) ==
    IndexRecords[CHOOSE k \in 1..Len(IndexRecords) :
                     /\ IndexRecords[k].id = <<id>>
                     /\ \A h \in 1..(k - 1) : IndexRecords[h].id # <<id>>].title

\* the versions under which the corpus holds the criterion's own document
OwnVersions(id) ==
    {i \in 1..Len(versions) : HasDocument(CriterionLocation(versions[i], <<id>>))}

\* the heading of the criterion's own document, under the first version that
\* holds it
OwnHeading(id) ==
    LET i == CHOOSE i \in OwnVersions(id) : \A j \in OwnVersions(id) : i <= j
    IN  firstText(SelectSeq(Elements(JSDOM(files[CriterionLocation(versions[i], <<id>>)].content),
                                     ""), IsH4))

\* the title of C23's cascade
CascadeTitle(id) ==
    IF IndexLoaded /\ HasRecord(id) THEN RecordedTitle(id)
    ELSE IF OwnVersions(id) # {} THEN OwnHeading(id)
    ELSE <<>>

\* the text has a criterion line with the title that links to the identifier
HasTitledLine(text, id, title) ==
    \E i \in 1..(Len(text) - 14 - Len(title)) :
        /\ text[i] = "- ["
        /\ text[i + 6] = " "
        /\ SubSeq(text, i + 7, i + 6 + Len(title)) = title
        /\ SubSeq(text, i + 7 + Len(title), i + 14 + Len(title))
               = <<"](", "wcag:", "/", "/", "criteria", "/", id, ")">>

\* C23: every criterion the outline source refers to has a line in the
\* outline whose title is the title recorded in the CriteriaIndex when the
\* index has a record for the identifier, else the heading of the criterion's
\* own document, else empty.
C23_TitleCascade ==
    (/\ request = OutlineUri
     /\ HasDocument(Root \o <<<<"guidelines">>, <<"index", ".", "html">>>>))
    => /\ OutlineServed
       /\ \A id \in ReferencedIds(OutlineMarkup) :
              HasTitledLine(OutlineText, id, CascadeTitle(id))

---------------------------------------------------------------------------
(* The layout of the outline. *)

\* the identifiers the criterion lines of a text link to, in order
LinkedIds(text) ==
    LET ends == {i \in Where(text, ")") : i > 1}
    IN  [k \in 1..Cardinality(ends) |-> text[InOrder(ends)[k] - 1]]

\* the identifiers of the criterion references of a source, in order
ReferenceSequence(markup) ==
    LET refs == {i \in Where(markup, IncludeOpen) : i + 5 <= Len(markup)}
    IN  [k \in 1..Cardinality(refs) |-> markup[InOrder(refs)[k] + 5]]

\* how many of the symbols lie before position i
Before(s, sym, i) == Cardinality({j \in Where(s, sym) : j < i})

\* C26: the outline has exactly one line per criterion reference of the
\* source, in document order; the line of a reference lies under the heading
\* of its own guideline, which lies under the heading of its own principle;
\* and in a source without description paragraphs every heading is followed
\* by an empty description, and the outline is produced all the same.
C26_OneLinePerReference ==
    (/\ request = OutlineUri
     /\ HasDocument(Root \o <<<<"guidelines">>, <<"index", ".", "html">>>>))
    => /\ OutlineServed
       /\ IsFullOutline(OutlineText, OutlineMarkup)
       /\ LinkedIds(OutlineText) = ReferenceSequence(OutlineMarkup)
       /\ LET lines == InOrder(Where(OutlineText, "- ["))
              refs  == InOrder(Where(OutlineMarkup, IncludeOpen))
          IN  \A k \in 1..Len(lines) :
                  /\ Before(OutlineText, "### ", lines[k])
                         = Before(OutlineMarkup, "<section.guideline>", refs[k])
                  /\ Before(OutlineText, "## ", lines[k])
                         = Before(OutlineMarkup, "<section.principle>", refs[k])
       /\ \A i \in Where(OutlineText, "### ") :
              Before(OutlineText, "## ", i)
                  = Before(OutlineMarkup, "<section.principle>",
                           InOrder(Where(OutlineMarkup, "<section.guideline>"))
                               [Before(OutlineText, "### ", i) + 1])
       /\ Count(OutlineMarkup, "<p>") = 0
          => \A i \in Where(OutlineText, "## ") \cup Where(OutlineText, "### ") :
                 /\ i + 4 <= Len(OutlineText)
                 /\ OutlineText[i + 3] = "\n\n"
                 /\ OutlineText[i + 4] = "\n\n"

---------------------------------------------------------------------------
(* Criterion references of both forms. *)

\* the outline the generator wrote, once it ran
Generated == outputPath \in DOMAIN files
GeneratedText == files[outputPath].content

\* the first position after i that holds the symbol (Len + 1 when none)
NextAfter(s, sym, i) ==
    IF \E j \in (i + 1)..Len(s) : s[j] = sym
    THEN CHOOSE j \in (i + 1)..Len(s) : s[j] = sym /\ \A h \in (i + 1)..(j - 1) : s[h] # sym
    ELSE Len(s) + 1

\* the value of the attribute of the reference that opens at position i
AttributeAt(markup, i) == SubSeq(markup, i + 1, NextAfter(markup, IncludeEnd, i) - 1)

\* the part of a path after its last "/", and a file name without its last
\* extension
FinalSegment(path) ==
    LET slashes == Where(path, "/")
    IN  SubSeq(path, Latest(slashes, Len(path) + 1) + 1, Len(path))
WithoutExtension(name) ==
    LET dots == Where(name, ".")
    IN  IF dots = {} THEN name ELSE SubSeq(name, 1, Latest(dots, Len(name) + 1) - 1)

\* the identifier C21 gives the reference that opens at position i
StatedId(markup, i) ==
    IF markup[i] = IdOpen THEN AttributeAt(markup, i)
    ELSE WithoutExtension(FinalSegment(AttributeAt(markup, i)))

\* the identifiers the criterion lines of a text link to, in order
LinkTargets(text) ==
    LET links == InOrder(Where(text, "]("))
    IN  [k \in 1..Len(links) |->
             SubSeq(text, links[k] + 6, NextAfter(text, ")", links[k]) - 1)]

\* the stated identifiers of the references of a source that open with one of
\* the symbols, in order
StatedIds(markup, opens) ==
    LET refs == InOrder({i \in 1..Len(markup) : markup[i] \in opens})
    IN  [k \in 1..Len(refs) |-> StatedId(markup, refs[k])]

\* C21: the identifier on the line of a criterion reference is, for a
\* transclusion marker (which the server's extractor reads), the final segment
\* of its path without its last extension, so that a.b.html gives a.b, and,
\* for an embedded section (which the generator's extractor reads), its id
\* attribute.
C21_DerivedIdentifier ==
    /\ (OutlineServed /\ ~IsDiagnostic(OutlineText))
       => LinkTargets(OutlineText) = StatedIds(OutlineMarkup, {IncludeOpen})
    /\ Generated
       => LinkTargets(GeneratedText) = StatedIds(OutlineMarkup, {IdOpen})

\* The positions of the references of a source that open with one of the
\* symbols: the principles opened up to the reference, the guidelines opened
\* since that principle, the references since that guideline
PositionsOf(markup, opens) ==
    LET principles == Where(markup, "<section.principle>")
        guidelines == Where(markup, "<section.guideline>")
        references == {i \in 1..Len(markup) : markup[i] \in opens}
        p(i) == Cardinality({j \in principles : j < i})
        g(i) == Cardinality({j \in guidelines : Latest(principles, i) < j /\ j < i})
        c(i) == Cardinality({j \in references :
                                 /\ Latest(principles \cup guidelines, i) < j
                                 /\ j <= i})
    IN  [k \in 1..Cardinality(references) |->
             <<ToString(p(InOrder(references)[k])),
               ToString(g(InOrder(references)[k])),
               ToString(c(InOrder(references)[k]))>>]

\* C22: within a guideline the extractor, the server's and the generator's
\* alike, writes a line for every criterion reference, embedded section and
\* transclusion marker, in document order and numbered in one sequence.
C22_BothFormsSelected ==
    /\ (OutlineServed /\ ~IsDiagnostic(OutlineText))
       => LineNumbers(OutlineText) = PositionsOf(OutlineMarkup, {IncludeOpen, IdOpen})
    /\ Generated
       => LineNumbers(GeneratedText) = PositionsOf(OutlineMarkup, {IncludeOpen, IdOpen})

\* the identifiers the extractors derive for the references of a source:
\* the server's for the transclusion markers, the generator's for the
\* embedded sections
DerivedIds(markup, open) ==
    LET refs == InOrder(Where(markup, open))
    IN  [k \in 1..Len(refs) |->
             IF open = IncludeOpen THEN criterionIdOf(AttributeAt(markup, refs[k]))
             ELSE AttributeAt(markup, refs[k])]

\* the corpus holds the criterion under some supported version
CriterionPresent(id) ==
    \E i \in 1..Len(versions) : HasDocument(CriterionLocation(versions[i], id))

\* the links of the outline text lead back to the identifiers
RoundTrips(text, ids) ==
    /\ Len(LinkTargets(text)) = Len(ids)
    /\ \A k \in 1..Len(ids) :
           LET uri == CriteriaRoot \o LinkTargets(text)[k]
           IN  /\ dispatch(uri).called = "findCriterion"
               /\ matchAny(uri, CriteriaRoot) = ids[k]
               /\ CriterionPresent(ids[k])
                  => /\ ~readResource(uri).response.isError
                     /\ readResource(uri).response.contents[1].uri = uri
                     /\ readResource(uri).lookup.version \in
                            {versions[i] : i \in {j \in 1..Len(versions) :
                                 HasDocument(CriterionLocation(versions[j], ids[k]))}}

\* C29: the link of every criterion line, of the outline the server extracts
\* and of the outline the generator writes, is an address the read handler
\* takes for a criterion address, with exactly the identifier the extractor
\* derived for the reference; when the corpus holds a criterion under that
\* identifier, the request for the link returns it and no error.
C29_LinksRoundTrip ==
    /\ (OutlineServed /\ ~IsDiagnostic(OutlineText))
       => RoundTrips(OutlineText, DerivedIds(OutlineMarkup, IncludeOpen))
    /\ Generated
       => RoundTrips(GeneratedText, DerivedIds(OutlineMarkup, IdOpen))
    /\ (Generated /\ called = "findCriterion"
        /\ \E k \in 1..Len(LinkTargets(GeneratedText)) :
               request = CriteriaRoot \o LinkTargets(GeneratedText)[k])
       => (CriterionPresent(IdAfter(CriteriaRoot)) => ~response.isError)

\* the generator wrote lines for a.b and a, and the link of the first line was
\* followed: the server returned the criterion a.b, which the corpus holds
\* under 2.1
C29_Witness ==
    /\ Generated
    /\ LinkTargets(GeneratedText) = << <<"a", ".", "b">>, <<"a">> >>
    /\ request = CriteriaRoot \o LinkTargets(GeneratedText)[1]
    /\ called = "findCriterion"
    /\ lookup.version = "21"
    /\ ~response.isError

---------------------------------------------------------------------------
(* The index the offline indexer writes. *)

\* the indexer has run, and the records and the count it wrote
Indexed == criteriaPath \in DOMAIN files
WrittenRecords == files[criteriaPath].json.criteria
WrittenCount == files[criteriaPath].json.count

\* the criterion files of the corpus that hold a section element: regular
\* HTML files two levels below guidelines/sc
SectionFiles ==
    {p \in DOMAIN files :
        /\ Len(p) = 6
        /\ SubSeq(p, 1, 4) = Root \o <<<<"guidelines">>, <<"sc">>>>
        /\ files[p].kind = "file"
        /\ Len(p[6]) > 2
        /\ p[6][Len(p[6]) - 1] = "." /\ p[6][Len(p[6])] = "html"
        /\ \E i \in 1..Len(files[p].content) :
               files[p].content[i] \in {"<section>", "<section.sc>", IdOpen}}

\* a record was made from the file: it carries its version and its markup
RecordFor(r, p) ==
    /\ r.version = (IF p[5][1] \in {"20", "21", "22"} THEN p[5][1] ELSE "unknown")
    /\ r.content = trim(files[p].content)

\* a comes before b in the order of the strings, or is b
AtMost(a, b) == a = b \/ precedes(a, b)

\* C24: the indexer writes one record for each criterion file of the corpus
\* that holds a section element and none else; the list is sorted by version
\* and then by id; and the count written is the number of records.
C24_IndexSorted ==
    Indexed =>
        /\ Len(WrittenRecords) = Cardinality(SectionFiles)
        /\ \E f \in [1..Len(WrittenRecords) -> SectionFiles] :
               /\ \A i, j \in DOMAIN f : f[i] = f[j] => i = j
               /\ \A i \in DOMAIN f : RecordFor(WrittenRecords[i], f[i])
        /\ \A i \in 1..(Len(WrittenRecords) - 1) :
               \/ /\ WrittenRecords[i].version # WrittenRecords[i + 1].version
                  /\ precedes(<<WrittenRecords[i].version>>,
                              <<WrittenRecords[i + 1].version>>)
               \/ /\ WrittenRecords[i].version = WrittenRecords[i + 1].version
                  /\ AtMost(WrittenRecords[i].id, WrittenRecords[i + 1].id)
        /\ WrittenCount = Len(WrittenRecords)

\* four records were written, for a 2.0 file and a 2.2 file named a, for a 2.1
\* file whose section has the id a and for a file in a directory that is no
\* version, in this order
C24_Witness ==
    /\ Indexed
    /\ WrittenCount = 4
    /\ [i \in 1..4 |-> <<WrittenRecords[i].version, WrittenRecords[i].id>>]
           = << <<"20", <<"a">>>>, <<"21", <<"a">>>>, <<"22", <<"a">>>>,
                <<"unknown", <<"c">>>> >>

============================================================================
